---- MODULE Spec2Model ----
(***************************************************************************)
(* Remote attitude-control link (Fritz179/fhgr_poisson).                   *)
(*                                                                         *)
(* Operator endpoint  : src/src/client/connection.py, client/display.py    *)
(* Vehicle endpoint   : src/src/server/connection.py, server/control.py,   *)
(*                      server/mpu6050.py                                  *)
(*                                                                         *)
(* Reals are fixed-point integers in units of 1/Unit.  A Python float is   *)
(* a record [k, v]: k = "num" with value v, or k in {"nan","inf","ninf"}.  *)
(* A wire field may also be k = "junk" (text float() rejects).  Time is in *)
(* centiseconds.  Angles handed to the control laws are whole degrees.     *)
(***************************************************************************)
EXTENDS Integers, Sequences, FiniteSets, TLC

VARIABLES
    \* ---- operator endpoint: client Connection fields
    now,                  \* time.time() / the wall clock
    sock_connected, connect_error, last_connect_attempt, next_connect_time,
    last_received_time, display_state, running, pending_state, last_sent_state,
    \* ---- operator endpoint: the socket object and the threads' positions
    os_peer,              \* sock.connect() has succeeded (the socket has a peer)
    sock_open,            \* sock.close() has not been called
    pc,                   \* position of the receiver, sender and main threads
    enow,                 \* local "now" of each thread inside _ensure_connected
    snap,                 \* get_state(): fields read so far by Display.render
    rendered,             \* what Display.render computed from them
    disp,                 \* the Display object: fallback_temp, prev_quat, prev_time
    \* ---- operator endpoint: observations
    neutral_sent,         \* close() has transmitted State().as_msg()
    last_tx_state,        \* State most recently transmitted by the send loop
    att_start, att_result,\* latest-started connect attempt: its now, its outcome
    data,                 \* receiver thread: the datagram recv returned
    send_failed,          \* a transmit failed and no connect has succeeded since
    \* ---- vehicle endpoint: server Connection fields and observations
    vnow,                 \* the vehicle's clock
    v_running, v_latest_command, sender_socket,
    vpc,                  \* position of the vehicle's receiver thread
    v_data, v_addr,       \* receiver thread: what recvfrom returned
    v_cmd_time,           \* vnow when _latest_command was last stored
    cb_calls,             \* number of on_command invocations
    v_rx,                 \* number of datagrams returned by recvfrom
    york_x, york_vx,      \* control.py globals x and vx
    output,               \* Output most recently returned by a control law
    mix_args,             \* the arguments of the call that returned it
    \* ---- vehicle endpoint: the estimator's poll loop, send_state and close
    imu_pc,               \* position of the MPU6050 monitor thread
    imu_fails,            \* read_scaled() failures in a row, so far
    v_sock_open,          \* the vehicle's sock.close() has not been called
    v_out,                \* datagram most recently handed to sock.sendto
    vcl_pc,               \* position of the thread that calls close()
    \* ---- legacy vehicle main (server/__init__.py)
    duty,                 \* pulse widths most recently written to the PWM channels
    \* ---- vehicle endpoint: the attitude estimator (mpu6050.py, _monitor_loop)
    orientation,          \* the loop's orientation, as its "xyz" Euler angles
    sample,               \* the InertialSample of the latest tick, and its dt
    ticks,                \* number of ticks so far
    wrap_in, wrap_out,    \* the latest yaw wrap: its argument, what it returned
    \* ---- vehicle endpoint: the MPU6050 object and the thread that closes it
    stop_event,           \* _stop_event is set
    mcl_pc,               \* position of the thread that calls MPU6050.close()
    imu_state,            \* _state, the published ImuState
    tick_log              \* what the monitor loop has done in the current tick

opvars == <<now, sock_connected, connect_error, last_connect_attempt,
            next_connect_time, last_received_time, display_state, running,
            pending_state, last_sent_state, os_peer, sock_open, pc,
            enow, snap, rendered, disp, neutral_sent, last_tx_state,
            att_start, att_result, data, send_failed>>
tlvars == <<imu_pc, imu_fails, v_sock_open, v_out, vcl_pc, duty>>
estvars == <<orientation, sample, ticks, wrap_in, wrap_out>>
pollvars == <<stop_event, mcl_pc, imu_state, tick_log>>
vhvars == <<vnow, v_running, v_latest_command, sender_socket, vpc, v_data,
            v_addr, v_cmd_time, cb_calls, v_rx, york_x, york_vx, output,
            mix_args, tlvars, estvars, pollvars>>
vars == <<opvars, vhvars>>

----------------------------------------------------------------------------
(* Bounds of the model *)
Epoch == 1000      \* time.time() when the endpoints are constructed
MaxTime == 1601    \* the operator clock stops here
MaxVTime == 1600   \* the vehicle clock stops here
MaxRx == 3         \* datagrams the vehicle receives in one run
MaxYorkX == 60     \* york_pid is not called again once x exceeds this
MaxFails == 3      \* sensor reads that fail in a row
MaxStale == 2      \* frames rendered in a row without fresh telemetry

----------------------------------------------------------------------------
(* Floats, formatting and parsing *)
Unit == 10000000
NoTime == -1
None == [none |-> TRUE]

F(v) == [k |-> "num", v |-> v]
NaN == [k |-> "nan", v |-> 0]
PInf == [k |-> "inf", v |-> 0]
NInf == [k |-> "ninf", v |-> 0]
Junk == [k |-> "junk", v |-> 0]

\* Python's a < b on floats
Lt(a, b) ==
    IF a.k = "nan" \/ b.k = "nan" THEN FALSE
    ELSE IF a.k = "ninf" THEN b.k # "ninf"
    ELSE IF a.k = "inf" THEN FALSE
    ELSE IF b.k = "inf" THEN TRUE
    ELSE IF b.k = "ninf" THEN FALSE
    ELSE a.v < b.v

\* Python's min(a, b) and max(a, b): the first argument unless the second beats it
PyMin(a, b) == IF Lt(b, a) THEN b ELSE a
PyMax(a, b) == IF Lt(a, b) THEN b ELSE a

clamp(value, min_value, max_value) == PyMax(min_value, PyMin(max_value, value))

\* round v to a multiple of m, ties to even (what the "f" presentation does)
RoundTo(v, m) ==
    LET a == IF v < 0 THEN -v ELSE v
        q == a \div m
        r == a % m
        up == (2 * r > m) \/ (2 * r = m /\ q % 2 = 1)
        res == (IF up THEN q + 1 ELSE q) * m
    IN IF v < 0 THEN -res ELSE res

\* f"{x:.6f}", f"{x:.4f}", f"{x:.2f}" as the wire field they produce
Fmt(x, m) == IF x.k = "num" THEN F(RoundTo(x.v, m)) ELSE x
Fmt6(x) == Fmt(x, Unit \div 1000000)
Fmt4(x) == Fmt(x, Unit \div 10000)
Fmt2(x) == Fmt(x, Unit \div 100)
\* f"{n}" of an int
FmtInt(n) == F(n * Unit)

\* int(x) of a float: "num" truncates toward zero; nan raises ValueError,
\* inf raises OverflowError
Trunc(v) == IF v < 0 THEN -((-v) \div Unit) ELSE v \div Unit

Min2(a, b) == IF a < b THEN a ELSE b

----------------------------------------------------------------------------
(* Operator endpoint: State and its encoding *)
OP_THROTTLE_LIMIT == F(Unit)

DefaultPids == <<<<F(111111), F(111111), F(111111)>>,
                 <<F(Unit), F(Unit), F(Unit)>>,
                 <<F(Unit), F(Unit), F(Unit)>>>>
Zero3 == <<F(0), F(0), F(0)>>
QIdentity == <<F(0), F(0), F(0), F(Unit)>>

State(quat, throttle, accel, gyro, temp_c, selected_pid, pid_values) ==
    [quat |-> quat, throttle |-> throttle, accel |-> accel, gyro |-> gyro,
     temp_c |-> temp_c, selected_pid |-> selected_pid, pid_values |-> pid_values]

State0 == State(QIdentity, F(0), Zero3, Zero3, F(0), 0, DefaultPids)

\* as_msg with the gains of law 0 whatever law is selected
State_as_msgFirstRow(s) ==
    LET g == s.pid_values[1]
    IN [utf8 |-> TRUE,
        parts |-> <<Fmt6(s.quat[1]), Fmt6(s.quat[2]), Fmt6(s.quat[3]), Fmt6(s.quat[4]),
                    Fmt2(s.throttle), FmtInt(s.selected_pid),
                    Fmt6(g[1]), Fmt6(g[2]), Fmt6(g[3])>>]

\* State.as_msg, lines 21-29
State_as_msg(s) ==
    LET g == s.pid_values[s.selected_pid + 1]
    IN [utf8 |-> TRUE,
        parts |-> <<Fmt6(s.quat[1]), Fmt6(s.quat[2]), Fmt6(s.quat[3]), Fmt6(s.quat[4]),
                    Fmt2(s.throttle), FmtInt(s.selected_pid),
                    Fmt6(g[1]), Fmt6(g[2]), Fmt6(g[3])>>]

----------------------------------------------------------------------------
(* Vehicle endpoint: rotations, ImuState and its encoding *)

\* scipy Rotation objects the model uses, by name
Rotations == {"I", "roll90", "pitch10", "yaw180"}

\* Rotation.as_quat(): x, y, z, w
as_quat(r) ==
    CASE r = "I" -> <<F(0), F(0), F(0), F(Unit)>>
      [] r = "roll90" -> <<F(7071068), F(0), F(0), F(7071068)>>
      [] r = "pitch10" -> <<F(0), F(871557), F(0), F(9961947)>>
      [] r = "yaw180" -> <<F(0), F(0), F(Unit), F(0)>>

\* Rotation.as_euler("xyz", degrees=True): roll, pitch, yaw in whole degrees
as_euler(r) ==
    CASE r = "I" -> <<0, 0, 0>>
      [] r = "roll90" -> <<90, 0, 0>>
      [] r = "pitch10" -> <<0, 10, 0>>
      [] r = "yaw180" -> <<0, 0, 180>>

Fmt6Quat(q) == <<Fmt6(q[1]), Fmt6(q[2]), Fmt6(q[3]), Fmt6(q[4])>>

ImuState(quat, ax, ay, az, gx, gy, gz, temp_c, dt) ==
    [quat |-> quat, ax |-> ax, ay |-> ay, az |-> az,
     gx |-> gx, gy |-> gy, gz |-> gz, temp_c |-> temp_c, dt |-> dt]

ImuState_as_msg(s, throttle) ==
    LET q == as_quat(s.quat)
    IN [utf8 |-> TRUE,
        parts |-> <<Fmt6(q[1]), Fmt6(q[2]), Fmt6(q[3]), Fmt6(q[4]),
                    Fmt4(s.ax), Fmt4(s.ay), Fmt4(s.az),
                    Fmt4(s.gx), Fmt4(s.gy), Fmt4(s.gz),
                    Fmt2(s.temp_c), Fmt2(throttle)>>]

\* estimator outputs used as inputs: level and at rest; rolled 90 degrees
ImuStates ==
    {ImuState("I", F(0), F(0), F(Unit), F(0), F(0), F(0), F(250000000), F(500000)),
     ImuState("roll90", F(12345), F(Unit), F(0), F(15000000), F(0), F(0), F(365349999),
              F(500000))}

----------------------------------------------------------------------------
(* Operator endpoint: inbound datagrams *)
NoDatagram == [utf8 |-> TRUE, parts |-> <<>>]
WithField(d, f) == [d EXCEPT !.parts = Append(d.parts, f)]
SetField(d, i, f) == [d EXCEPT !.parts[i] = f]

\* what the vehicle emits: ImuState.as_msg(throttle)
Canonical12 == {ImuState_as_msg(s, F(5000000)) : s \in ImuStates}

OpInbound ==
    Canonical12
    \cup {WithField(d, F(Unit)) : d \in Canonical12}          \* trailing law id 1
    \cup {WithField(d, NaN) : d \in Canonical12}              \* law id "nan"
    \cup {WithField(d, PInf) : d \in Canonical12}             \* law id "inf"
    \cup {SetField(WithField(d, F(0)), 12, NaN) : d \in Canonical12}  \* throttle "nan"
    \cup {SetField(WithField(d, F(0)), 3, Junk) : d \in Canonical12}  \* non-numeric
    \cup {[utf8 |-> TRUE, parts |-> <<F(0), F(0), F(0), F(Unit), F(0)>>],  \* 5 fields
          [utf8 |-> FALSE, parts |-> <<>>]}                   \* not UTF-8 text

----------------------------------------------------------------------------
(* Operator endpoint: Connection *)
Threads == {"rx", "tx"}
STATE_TIMEOUT == 500

\* Commands the caller hands to set_command (main() builds them with its own gains)
MainPids == <<<<F(111111), F(111111), F(111111)>>,
              <<F(250000), F(250000), F(111111)>>,
              <<F(111111), F(111111), F(111111)>>>>
Commands ==
    {State(QIdentity, F(0), Zero3, Zero3, F(0), 0, MainPids),
     State(as_quat("pitch10"), F(5049999), Zero3, Zero3, F(0), 1, MainPids)}

\* a Command after the operator tuned the gains of law 2 and pushed the
\* throttle to its lower limit
TunedPids == <<<<F(111111), F(111111), F(111111)>>,
               <<F(250000), F(250000), F(111111)>>,
               <<F(1234567), F(9000004), F(0)>>>>
TunedCommands ==
    Commands
    \cup {State(as_quat("yaw180"), F(-Unit), Zero3, Zero3, F(0), 2, TunedPids)}

\* the backoff test with the deadline itself still counted as too early
EnsureSuppressedLate(t, next, last) == t <= next \/ (t - last) < 100

\* the two conditions of _ensure_connected under which no attempt is made
EnsureSuppressed(t, next, last) == t < next \/ (t - last) < 100

\* where _ensure_connected returns to
EnsureReturn(th) == IF th = "rx" THEN "r_top" ELSE "s_conn2"

Goto(th, l) == pc' = [pc EXCEPT ![th] = l]

\* _ensure_connected, lines 57-61
EnsureCheck(th) ==
    /\ pc[th] = "e_check"
    /\ IF sock_connected \/ EnsureSuppressed(now, next_connect_time, last_connect_attempt)
       THEN /\ Goto(th, EnsureReturn(th))
            /\ UNCHANGED enow
       ELSE /\ Goto(th, "e_mark")
            /\ enow' = [enow EXCEPT ![th] = now]
    /\ UNCHANGED <<now, sock_connected, connect_error, last_connect_attempt,
                   next_connect_time, last_received_time, display_state, running,
                   pending_state, last_sent_state, os_peer, sock_open, snap,
                   rendered, neutral_sent, last_tx_state, att_start, att_result, data, disp, send_failed, vhvars>>

\* _ensure_connected, line 62
EnsureMark(th) ==
    /\ pc[th] = "e_mark"
    /\ last_connect_attempt' = enow[th]
    /\ IF enow[th] >= att_start
       THEN att_start' = enow[th] /\ att_result' = "pending"
       ELSE UNCHANGED <<att_start, att_result>>
    /\ Goto(th, "e_connect")
    /\ UNCHANGED <<now, sock_connected, connect_error, next_connect_time,
                   last_received_time, display_state, running, pending_state,
                   last_sent_state, os_peer, sock_open, enow, snap, rendered,
                   neutral_sent, last_tx_state, data, disp, send_failed, vhvars>>

\* _ensure_connected, lines 63-72; ok is whether sock.connect returned
EnsureConnect(th, ok) ==
    /\ pc[th] = "e_connect"
    /\ ok => sock_open
    /\ IF ok
       THEN /\ sock_connected' = TRUE
            /\ connect_error' = "None"
            /\ next_connect_time' = enow[th]
            /\ os_peer' = TRUE
            /\ send_failed' = FALSE
       ELSE /\ sock_connected' = FALSE
            /\ connect_error' = "OSError"
            /\ next_connect_time' = enow[th] + 500
            /\ UNCHANGED <<os_peer, send_failed>>
    /\ IF enow[th] = att_start
       THEN att_result' = IF ok THEN "ok" ELSE "fail"
       ELSE UNCHANGED att_result
    /\ enow' = [enow EXCEPT ![th] = 0]
    /\ Goto(th, EnsureReturn(th))
    /\ UNCHANGED <<now, last_connect_attempt, last_received_time, display_state,
                   running, pending_state, last_sent_state, sock_open, snap,
                   rendered, neutral_sent, last_tx_state, att_start,
                   data, disp, vhvars>>

Neg(x) == IF x.k = "num" THEN F(-x.v)
          ELSE IF x.k = "inf" THEN NInf ELSE IF x.k = "ninf" THEN PInf ELSE x

\* _receive_loop, lines 89-111: what one datagram does, given the current display_state.
\* res = "crash": an exception no handler of the loop catches; "drop": continue
OpDecode(d, cur) ==
    LET parts == d.parts
        n == Min2(13, Len(parts))
    IN IF ~d.utf8 THEN [res |-> "crash", state |-> cur]            \* data.decode()
       ELSE IF \E i \in 1..n : parts[i].k = "junk"
            THEN [res |-> "drop", state |-> cur]                    \* float(x): ValueError
       ELSE IF n < 13 THEN [res |-> "drop", state |-> cur]          \* len(floats) < 13
       ELSE IF parts[13].k \in {"inf", "ninf"}
            THEN [res |-> "crash", state |-> cur]                   \* int(inf): OverflowError
       ELSE [res |-> "ok",
             state |-> State(<<parts[1], parts[2], parts[3], parts[4]>>,
                             clamp(parts[12], Neg(OP_THROTTLE_LIMIT), OP_THROTTLE_LIMIT),
                             <<parts[5], parts[6], parts[7]>>,
                             <<parts[8], parts[9], parts[10]>>,
                             parts[11],
                             IF parts[13].k = "nan" THEN cur.selected_pid
                             ELSE Trunc(parts[13].v),
                             DefaultPids)]

\* _receive_loop, line 75
RecvTop ==
    /\ pc["rx"] = "r_top"
    /\ Goto("rx", IF running THEN "r_conn" ELSE "done")
    /\ UNCHANGED <<now, sock_connected, connect_error, last_connect_attempt,
                   next_connect_time, last_received_time, display_state, running,
                   pending_state, last_sent_state, os_peer, sock_open, enow, snap,
                   rendered, neutral_sent, last_tx_state, att_start, att_result, data, disp, send_failed, vhvars>>

\* _receive_loop, lines 76-79: not connected, call _ensure_connected, sleep, continue
RecvConn ==
    /\ pc["rx"] = "r_conn"
    /\ Goto("rx", IF sock_connected THEN "r_recv" ELSE "e_check")
    /\ UNCHANGED <<now, sock_connected, connect_error, last_connect_attempt,
                   next_connect_time, last_received_time, display_state, running,
                   pending_state, last_sent_state, os_peer, sock_open, enow, snap,
                   rendered, neutral_sent, last_tx_state, att_start, att_result, data, disp, send_failed, vhvars>>

\* _receive_loop, lines 80-83: recv times out
RecvTimeout ==
    /\ pc["rx"] = "r_recv"
    /\ sock_open
    /\ Goto("rx", "r_top")
    /\ UNCHANGED <<now, sock_connected, connect_error, last_connect_attempt,
                   next_connect_time, last_received_time, display_state, running,
                   pending_state, last_sent_state, os_peer, sock_open, enow, snap,
                   rendered, neutral_sent, last_tx_state, att_start, att_result, data, disp, send_failed, vhvars>>

\* _receive_loop, lines 84-87: recv raises OSError
RecvError ==
    /\ pc["rx"] = "r_recv"
    /\ sock_connected' = FALSE
    /\ connect_error' = "OSError"
    /\ Goto("rx", "r_top")
    /\ UNCHANGED <<now, last_connect_attempt, next_connect_time,
                   last_received_time, display_state, running, pending_state,
                   last_sent_state, os_peer, sock_open, enow, snap, rendered,
                   neutral_sent, last_tx_state, att_start, att_result, data, disp, send_failed, vhvars>>

\* _receive_loop, line 81: recv returns datagram d
RecvData(d) ==
    /\ pc["rx"] = "r_recv"
    /\ sock_open /\ os_peer
    /\ data' = d
    /\ Goto("rx", "r_got")
    /\ UNCHANGED <<now, sock_connected, connect_error, last_connect_attempt,
                   next_connect_time, last_received_time, display_state, running,
                   pending_state, last_sent_state, os_peer, sock_open, enow, snap,
                   rendered, neutral_sent, last_tx_state, att_start, att_result, disp, send_failed, vhvars>>

\* _receive_loop, lines 89-111
RecvDecode ==
    /\ pc["rx"] = "r_got"
    /\ LET r == OpDecode(data, display_state)
       IN /\ display_state' = r.state
          /\ Goto("rx", IF r.res = "ok" THEN "r_stamp"
                        ELSE IF r.res = "drop" THEN "r_top" ELSE "dead")
    /\ data' = NoDatagram
    /\ UNCHANGED <<now, sock_connected, connect_error, last_connect_attempt,
                   next_connect_time, last_received_time, running, pending_state,
                   last_sent_state, os_peer, sock_open, enow, snap, rendered,
                   neutral_sent, last_tx_state, att_start, att_result, disp, send_failed, vhvars>>

\* _receive_loop, line 112
RecvStamp ==
    /\ pc["rx"] = "r_stamp"
    /\ last_received_time' = now
    /\ Goto("rx", "r_top")
    /\ UNCHANGED <<now, sock_connected, connect_error, last_connect_attempt,
                   next_connect_time, display_state, running, pending_state,
                   last_sent_state, os_peer, sock_open, enow, snap, rendered,
                   neutral_sent, last_tx_state, att_start, att_result, data, disp, send_failed, vhvars>>

\* _send_loop, line 122
SendTop ==
    /\ pc["tx"] = "s_top"
    /\ Goto("tx", IF running THEN "s_chk" ELSE "done")
    /\ UNCHANGED <<now, sock_connected, connect_error, last_connect_attempt,
                   next_connect_time, last_received_time, display_state, running,
                   pending_state, last_sent_state, os_peer, sock_open, enow, snap,
                   rendered, neutral_sent, last_tx_state, att_start, att_result, data, disp, send_failed, vhvars>>

\* the condition of line 123
SendWanted(pending, last_sent) == pending # None /\ pending # last_sent

\* _send_loop, line 123 (and the sleep of line 133 when there is nothing to send)
SendCheck ==
    /\ pc["tx"] = "s_chk"
    /\ Goto("tx", IF SendWanted(pending_state, last_sent_state) THEN "s_conn" ELSE "s_top")
    /\ UNCHANGED <<now, sock_connected, connect_error, last_connect_attempt,
                   next_connect_time, last_received_time, display_state, running,
                   pending_state, last_sent_state, os_peer, sock_open, enow, snap,
                   rendered, neutral_sent, last_tx_state, att_start, att_result, data, disp, send_failed, vhvars>>

\* _send_loop, lines 124-125
SendConn ==
    /\ pc["tx"] = "s_conn"
    /\ Goto("tx", IF sock_connected THEN "s_conn2" ELSE "e_check")
    /\ UNCHANGED <<now, sock_connected, connect_error, last_connect_attempt,
                   next_connect_time, last_received_time, display_state, running,
                   pending_state, last_sent_state, os_peer, sock_open, enow, snap,
                   rendered, neutral_sent, last_tx_state, att_start, att_result, data, disp, send_failed, vhvars>>

\* _send_loop, line 126
SendConn2 ==
    /\ pc["tx"] = "s_conn2"
    /\ Goto("tx", IF sock_connected THEN "s_send" ELSE "s_top")
    /\ UNCHANGED <<now, sock_connected, connect_error, last_connect_attempt,
                   next_connect_time, last_received_time, display_state, running,
                   pending_state, last_sent_state, os_peer, sock_open, enow, snap,
                   rendered, neutral_sent, last_tx_state, att_start, att_result, data, disp, send_failed, vhvars>>

\* _send_loop, line 128: sock.send(self.pending_state.as_msg()) returns
SendOk ==
    /\ pc["tx"] = "s_send"
    /\ sock_open /\ os_peer
    /\ last_tx_state' = pending_state
    /\ Goto("tx", "s_mark")
    /\ UNCHANGED <<now, sock_connected, connect_error, last_connect_attempt,
                   next_connect_time, last_received_time, display_state, running,
                   pending_state, last_sent_state, os_peer, sock_open, enow, snap,
                   rendered, neutral_sent, att_start,
                   att_result, data, disp, send_failed, vhvars>>

\* _send_loop, lines 128 and 130-132: sock.send raises OSError
SendFail ==
    /\ pc["tx"] = "s_send"
    /\ sock_connected' = FALSE
    /\ connect_error' = "OSError"
    /\ send_failed' = TRUE
    /\ Goto("tx", "s_top")
    /\ UNCHANGED <<now, last_connect_attempt, next_connect_time,
                   last_received_time, display_state, running, pending_state,
                   last_sent_state, os_peer, sock_open, enow, snap, rendered,
                   neutral_sent, last_tx_state, att_start, att_result, data, disp, vhvars>>

\* _send_loop, line 129
SendMark ==
    /\ pc["tx"] = "s_mark"
    /\ last_sent_state' = pending_state
    /\ Goto("tx", "s_top")
    /\ UNCHANGED <<now, sock_connected, connect_error, last_connect_attempt,
                   next_connect_time, last_received_time, display_state, running,
                   pending_state, os_peer, sock_open, enow, snap, rendered, neutral_sent, last_tx_state, att_start, att_result, data, disp, send_failed, vhvars>>

\* set_command, line 119
set_command(c) ==
    /\ pc["main"] = "m_run"
    /\ pending_state' = c
    /\ UNCHANGED <<now, sock_connected, connect_error, last_connect_attempt,
                   next_connect_time, last_received_time, display_state, running,
                   last_sent_state, os_peer, sock_open, pc, enow, snap, rendered,
                   neutral_sent, last_tx_state, att_start, att_result, data, disp, send_failed, vhvars>>

\* close, line 136
CloseStop ==
    /\ pc["main"] = "m_run"
    /\ running' = FALSE
    /\ Goto("main", "c_send")
    /\ UNCHANGED <<now, sock_connected, connect_error, last_connect_attempt,
                   next_connect_time, last_received_time, display_state,
                   pending_state, last_sent_state, os_peer, sock_open, enow, snap,
                   rendered, neutral_sent, last_tx_state, att_start, att_result, data, disp, send_failed, vhvars>>

\* close, lines 137-140: sock.send(State().as_msg()); ok is whether it returned
CloseSend(ok) ==
    /\ pc["main"] = "c_send"
    /\ ok => os_peer
    /\ IF ok
       THEN neutral_sent' = TRUE
       ELSE UNCHANGED neutral_sent
    /\ Goto("main", "c_join")
    /\ UNCHANGED <<now, sock_connected, connect_error, last_connect_attempt,
                   next_connect_time, last_received_time, display_state, running,
                   pending_state, last_sent_state, os_peer, sock_open, enow, snap,
                   rendered, last_tx_state, att_start, att_result, data, disp, send_failed, vhvars>>

\* close, lines 141-152: both joins return (thread finished or 0.5 s timeout),
\* then sock.close()
CloseSocket ==
    /\ pc["main"] = "c_join"
    /\ sock_open' = FALSE
    /\ Goto("main", "done")
    /\ UNCHANGED <<now, sock_connected, connect_error, last_connect_attempt,
                   next_connect_time, last_received_time, display_state, running,
                   pending_state, last_sent_state, os_peer, enow, snap, rendered,
                   neutral_sent, last_tx_state, att_start, att_result, data, disp, send_failed, vhvars>>

----------------------------------------------------------------------------
(* Operator endpoint: Display.render on Connection.get_state *)

\* Display.__init__, lines 214-223; main, lines 143-144
start_time == Epoch
\* compute_render_geometry, line 49: the frame fits the screen
warning_message == "None"
NoQuat == <<>>
Display0 == [fallback_temp |-> F(0), prev_quat |-> NoQuat, prev_time |-> NoTime,
             stale_n |-> 0]

\* R.from_quat(q).as_euler("xyz", degrees=True) of a quat tuple, whole degrees
quat_euler(q) ==
    as_euler(CHOOSE r \in Rotations : as_quat(r) = q \/ Fmt6Quat(as_quat(r)) = q)

\* n \div d rounded toward zero
DivZ(n, d) == IF n < 0 THEN -((-n) \div d) ELSE n \div d

\* line 245: (diff + 180.0) % 360.0 - 180.0
unwrap(d) == ((d + 180) % 360) - 180

\* lines 236-248: the simulated gyro and accel of the fallback state, from
\* the target and previous orientation and dt in milliseconds
diff_euler(target_quat, prev_quat) ==
    LET c == quat_euler(target_quat)
        p == quat_euler(prev_quat)
    IN <<unwrap(c[1] - p[1]), unwrap(c[2] - p[2]), unwrap(c[3] - p[3])>>
gyro_fake(diff, dt_ms) ==
    LET g(d) == F(DivZ(d * Unit, dt_ms * 90) * 1000)
    IN <<g(diff[1]), g(diff[2]), g(diff[3])>>
accel_fake(diff) ==
    LET a(d) == F(DivZ(d * Unit, 9))
    IN <<a(diff[1]), a(diff[2]), a(diff[3])>>

\* lines 234-259: the state shown while telemetry is not fresh, with the
\* previous orientation in place of the target's
FallbackFrozen(d, target_state, t, selected_pid) ==
    LET prev_quat == IF d.prev_quat # NoQuat THEN d.prev_quat ELSE target_state.quat
        prev_ms == IF d.prev_time # NoTime THEN d.prev_time * 10 ELSE t * 10 - 16
        dt_ms == IF t * 10 - prev_ms > 1 THEN t * 10 - prev_ms ELSE 1
        diff == diff_euler(target_state.quat, prev_quat)
    IN State(prev_quat, target_state.throttle, accel_fake(diff),
             gyro_fake(diff, dt_ms),
             F(d.fallback_temp.v + Unit \div 10), selected_pid,
             target_state.pid_values)

\* lines 234-259: the state shown while telemetry is not fresh
Fallback(d, target_state, t, selected_pid) ==
    LET prev_quat == IF d.prev_quat # NoQuat THEN d.prev_quat ELSE target_state.quat
        prev_ms == IF d.prev_time # NoTime THEN d.prev_time * 10 ELSE t * 10 - 16
        dt_ms == IF t * 10 - prev_ms > 1 THEN t * 10 - prev_ms ELSE 1
        diff == diff_euler(target_state.quat, prev_quat)
    IN State(target_state.quat, target_state.throttle, accel_fake(diff),
             gyro_fake(diff, dt_ms),
             F(d.fallback_temp.v + Unit \div 10), selected_pid,
             target_state.pid_values)

\* lines 261-275: the status lines
status_lines(connected, rx_fresh, last, error, t) ==
    (IF connected
     THEN (IF ~rx_fresh THEN <<"Connected (no data yet)">> ELSE <<>>)
          \o (IF error # "None" THEN <<error>> ELSE <<>>)
     ELSE IF last = NoTime /\ (t - start_time) < STATE_TIMEOUT
          THEN <<"Connecting...">>
          ELSE <<"Not connected">> \o (IF error # "None" THEN <<error>> ELSE <<>>))
    \o (IF warning_message # "None" THEN <<warning_message>> ELSE <<>>)

\* the freshness test with the timeout itself counted as stale
RxFreshStrict(last, t, state_timeout) == last # NoTime /\ (t - last) < state_timeout

\* display.py line 227
RxFresh(last, t, state_timeout) == last # NoTime /\ (t - last) <= state_timeout

\* the caller reads the clock for the now argument and passes target_state;
\* get_state, line 115, reads display_state.  stamped and last0 observe the
\* receive loop at that moment: whether line 112 has run for this
\* display_state, and the last_received_time that then went with it
RenderBegin(target_state) ==
    /\ pc["main"] = "m_run"
    /\ snap' = [now |-> now, state |-> display_state, target |-> target_state,
                stamped |-> pc["rx"] # "r_stamp", last0 |-> last_received_time]
    /\ Goto("main", "m_get")
    /\ UNCHANGED <<now, sock_connected, connect_error, last_connect_attempt,
                   next_connect_time, last_received_time, display_state, running,
                   pending_state, last_sent_state, os_peer, sock_open, enow,
                   rendered, neutral_sent, last_tx_state, att_start, att_result, data,
                   disp, send_failed, vhvars>>

\* get_state, line 115, reads the other three fields; render, lines 226-286
Render ==
    /\ pc["main"] = "m_get"
    /\ LET rx_fresh == RxFresh(last_received_time, snap.now, STATE_TIMEOUT)
           shown == IF rx_fresh THEN snap.state
                    ELSE Fallback(disp, snap.target, snap.now,
                                  snap.target.selected_pid)
       IN /\ ~rx_fresh => disp.stale_n < MaxStale
          /\ rendered' = [now |-> snap.now,
                          last |-> last_received_time,
                          fresh |-> rx_fresh,
                          received |-> snap.state,
                          target |-> snap.target,
                          connected |-> sock_connected,
                          error |-> connect_error,
                          status |-> status_lines(sock_connected, rx_fresh,
                                                  last_received_time,
                                                  connect_error, snap.now),
                          display_state |-> shown]
          /\ disp' = IF rx_fresh
                     THEN [fallback_temp |-> snap.state.temp_c,
                           prev_quat |-> snap.state.quat,
                           prev_time |-> snap.now,
                           stale_n |-> 0]
                     ELSE [fallback_temp |-> shown.temp_c,
                           prev_quat |-> snap.target.quat,
                           prev_time |-> snap.now,
                           stale_n |-> disp.stale_n + 1]
    /\ snap' = None
    /\ Goto("main", "m_shown")
    /\ UNCHANGED <<now, sock_connected, connect_error, last_connect_attempt,
                   next_connect_time, last_received_time, display_state, running,
                   pending_state, last_sent_state, os_peer, sock_open, enow,
                   neutral_sent, last_tx_state, att_start, att_result, data, send_failed, vhvars>>

\* render returns; the frame is shown and dropped
RenderReturn ==
    /\ pc["main"] = "m_shown"
    /\ rendered' = None
    /\ Goto("main", "m_run")
    /\ UNCHANGED <<now, sock_connected, connect_error, last_connect_attempt,
                   next_connect_time, last_received_time, display_state, running,
                   pending_state, last_sent_state, os_peer, sock_open, enow, snap,
                   neutral_sent, last_tx_state, att_start, att_result, data, disp, send_failed, vhvars>>

\* the wall clock advances
Tick(t) ==
    /\ t > now
    /\ now' = t
    /\ UNCHANGED <<sock_connected, connect_error, last_connect_attempt,
                   next_connect_time, last_received_time, display_state, running,
                   pending_state, last_sent_state, os_peer, sock_open, pc, enow,
                   snap, rendered, neutral_sent, last_tx_state, att_start, att_result, data,
                   disp, send_failed, vhvars>>

\* Connection.__init__, lines 37-54
OpInit ==
    /\ now = Epoch
    /\ sock_connected = FALSE
    /\ connect_error = "None"
    /\ last_connect_attempt = 0
    /\ next_connect_time = 0
    /\ last_received_time = NoTime
    /\ display_state = State0
    /\ running = TRUE
    /\ pending_state = None
    /\ last_sent_state = None
    /\ os_peer = FALSE
    /\ sock_open = TRUE
    /\ pc = [rx |-> "r_top", tx |-> "s_top", main |-> "m_run"]
    /\ enow = [rx |-> 0, tx |-> 0]
    /\ snap = None
    /\ rendered = None
    /\ disp = Display0
    /\ neutral_sent = FALSE
    /\ last_tx_state = None
    /\ att_start = NoTime
    /\ att_result = "none"
    /\ data = NoDatagram
    /\ send_failed = FALSE

\* server Connection.__init__, lines 30-42; control.py lines 49-50
VhInit ==
    /\ vnow = Epoch
    /\ v_running = TRUE
    /\ v_latest_command = None
    /\ sender_socket = None
    /\ vpc = "v_top"
    /\ v_data = NoDatagram
    /\ v_addr = None
    /\ v_cmd_time = NoTime
    /\ cb_calls = 0
    /\ v_rx = 0
    /\ york_x = 0
    /\ york_vx = 0
    /\ output = None
    /\ mix_args = None
    /\ imu_pc = "i_top"
    /\ imu_fails = 0
    /\ v_sock_open = TRUE
    /\ v_out = None
    /\ vcl_pc = "c_run"
    /\ duty = None
    /\ orientation = [roll |-> 0, pitch |-> 0, yaw |-> 0]
    /\ sample = None
    /\ ticks = 0
    /\ wrap_in = 0
    /\ wrap_out = None
    /\ stop_event = FALSE
    /\ mcl_pc = "m_run"
    /\ imu_state = None
    /\ tick_log = <<>>

\* the operator endpoint after its first connect attempt succeeded at Epoch
OpConnected ==
    /\ now = Epoch
    /\ sock_connected = TRUE
    /\ connect_error = "None"
    /\ last_connect_attempt = Epoch
    /\ next_connect_time = Epoch
    /\ last_received_time = NoTime
    /\ display_state = State0
    /\ running = TRUE
    /\ pending_state = None
    /\ last_sent_state = None
    /\ os_peer = TRUE
    /\ sock_open = TRUE
    /\ pc = [rx |-> "r_top", tx |-> "s_top", main |-> "m_run"]
    /\ enow = [rx |-> 0, tx |-> 0]
    /\ snap = None
    /\ rendered = None
    /\ disp = Display0
    /\ neutral_sent = FALSE
    /\ last_tx_state = None
    /\ att_start = Epoch
    /\ att_result = "ok"
    /\ data = NoDatagram
    /\ send_failed = FALSE

\* clock readings: of the send path, of the connect path, of the receive path
SendTimes == {t \in Epoch..MaxTime : (t - Epoch) % 500 = 0}
ConnTimes == {t \in Epoch..MaxTime : (t - Epoch) % 100 \in {0, 99}}
RxTimes == {t \in Epoch..MaxTime : (t - Epoch) % 500 \in {0, 1}}

Connecting ==
    \/ \E th \in Threads : EnsureCheck(th)
    \/ \E th \in Threads : EnsureMark(th)
    \/ \E th \in Threads, ok \in BOOLEAN : EnsureConnect(th, ok)

ReceiverIdle ==
    \/ RecvTop
    \/ RecvConn
    \/ RecvTimeout
    \/ RecvError

Sender ==
    \/ SendTop
    \/ SendCheck
    \/ SendConn
    \/ SendConn2
    \/ SendOk
    \/ SendFail
    \/ SendMark

Closing ==
    \/ CloseStop
    \/ \E ok \in BOOLEAN : CloseSend(ok)
    \/ CloseSocket

(* The send path: both loops, set_command and close; the vehicle is silent *)
Init == OpInit /\ VhInit

Next ==
    \/ Connecting
    \/ ReceiverIdle
    \/ Sender
    \/ \E c \in Commands : set_command(c)
    \/ Closing
    \/ \E t \in SendTimes : Tick(t)

Spec == Init /\ [][Next]_vars

(* The connect path: both loops call _ensure_connected as the clock advances *)
NextConn ==
    \/ Connecting
    \/ ReceiverIdle
    \/ Sender
    \/ \E c \in {CHOOSE c \in Commands : c.selected_pid = 1} : set_command(c)
    \/ \E t \in ConnTimes : Tick(t)

SpecConn == Init /\ [][NextConn]_vars

(* The receive path: a connected endpoint, telemetry arriving, the display reading *)
\* the target the main loop hands to render while no key is pressed
RxTargets == {CHOOSE c \in Commands : c.selected_pid = 0}

InitRx == OpConnected /\ VhInit

NextRx ==
    \/ RecvTop
    \/ RecvConn
    \/ RecvTimeout
    \/ \E d \in OpInbound : RecvData(d)
    \/ RecvDecode
    \/ RecvStamp
    \/ \E target_state \in RxTargets : RenderBegin(target_state)
    \/ Render
    \/ RenderReturn
    \/ \E t \in RxTimes : Tick(t)

SpecRx == InitRx /\ [][NextRx]_vars

----------------------------------------------------------------------------
(* Operator endpoint: properties *)

\* the send loop's sock.send returns: a Command has been transmitted
Transmits == pc["tx"] = "s_send" /\ pc'["tx"] = "s_mark"

\* thread th leaves the check of _ensure_connected
Checked(th) == pc[th] = "e_check" /\ pc'[th] # "e_check"

\* C1: once close() has transmitted the neutral Command, the send loop transmits
\* no Command whose datagram differs from the neutral one
C1_NeutralIsLast ==
    [][(neutral_sent /\ Transmits)
         => State_as_msg(pending_state) = State_as_msg(State0)]_vars

\* C2: the send loop transmits a Command only when it differs from the Command
\* it transmitted last (handing set_command an equal value again causes no
\* further transmit)
C2_SendOnChange ==
    [][Transmits => pending_state # last_tx_state]_vars

\* C7: no connect attempt is made less than 1 second after the latest one,
\* whichever of the two loops makes it
C7_AttemptsApart ==
    [][\A th \in Threads :
          (pc[th] = "e_mark" /\ pc'[th] = "e_connect" /\ att_start # NoTime)
             => enow[th] - att_start >= 100]_vars

\* C8 as stated: 1 second after a failed connect attempt, the next
\* _ensure_connected call on a not-connected endpoint makes a connect attempt
C8_PermittedAfter1s ==
    [][\A th \in Threads :
          (Checked(th) /\ ~sock_connected /\ att_result = "fail"
             /\ now - att_start >= 100)
             => pc'[th] = "e_mark"]_vars

\* C8 amended: 5 seconds after the latest connect attempt started, if it
\* failed, the next _ensure_connected call on a not-connected endpoint makes a
\* connect attempt
C8_PermittedAfter5s ==
    [][\A th \in Threads :
          (Checked(th) /\ ~sock_connected /\ att_result = "fail"
             /\ now - att_start >= 500)
             => pc'[th] = "e_mark"]_vars

\* a loop is about to connect again, 5 seconds or more after a failed attempt
C8_Witness ==
    \E th \in Threads :
        /\ pc[th] = "e_mark"
        /\ att_result = "fail"
        /\ enow[th] - att_start >= 500

\* the receive loop finishes with the datagram it holds
Handles == pc["rx"] = "r_got" /\ pc'["rx"] # "r_got"

\* C3: a canonical 12-field State datagram is accepted: its fields replace
\* display_state and the loop goes on to set last_received_time
C3_CanonicalAccepted ==
    [][(Handles /\ data \in Canonical12)
         => /\ pc'["rx"] = "r_stamp"
            /\ display_state'.quat = SubSeq(data.parts, 1, 4)
            /\ display_state'.accel = SubSeq(data.parts, 5, 7)
            /\ display_state'.gyro = SubSeq(data.parts, 8, 10)
            /\ display_state'.temp_c = data.parts[11]]_vars

\* wrong field count, a non-numeric field, or bytes that are not text
Malformed(d) ==
    \/ ~d.utf8
    \/ Len(d.parts) \notin {12, 13}
    \/ \E i \in 1..Len(d.parts) : d.parts[i].k = "junk"

\* C9: whatever the datagram, the receive loop keeps running, and a malformed
\* one leaves display_state and last_received_time as they were
C9_LoopSurvives ==
    [][Handles
         => /\ pc'["rx"] # "dead"
            /\ Malformed(data) => /\ display_state' = display_state
                                  /\ last_received_time' = last_received_time]_vars

\* C4: render reports fresh exactly when a State has been received and
\* now - last_received_time <= 5.0 s
C4_Freshness ==
    pc["main"] = "m_shown"
        => /\ rendered.fresh
                <=> (rendered.last # NoTime /\ rendered.now - rendered.last <= 500)
           /\ (rendered.last # NoTime /\ rendered.now - rendered.last = 501)
                => ~rendered.fresh
           /\ (rendered.last # NoTime /\ rendered.now - rendered.last = 499)
                => rendered.fresh
           /\ rendered.last = NoTime => ~rendered.fresh

\* render has run with last_received_time = now - 5.01 s and reported not fresh
C4_Witness ==
    /\ pc["main"] = "m_shown"
    /\ rendered.last # NoTime
    /\ rendered.now - rendered.last = 501
    /\ ~rendered.fresh

----------------------------------------------------------------------------
(* Vehicle endpoint: Command decoding *)
VH_THROTTLE_LIMIT == F(100 * Unit)

\* R.from_quat on the four wire fields: the rotation they encode
from_quat(q) == CHOOSE r \in Rotations : Fmt6Quat(as_quat(r)) = q

ZeroNorm(q) == \A i \in 1..4 : q[i] = F(0)

\* lines 76-77 and mpu6050.py _wrap_yaw
wrap_yaw(yaw) ==
    IF yaw > 180 \/ yaw < -180 THEN ((yaw + 180) % 360) - 180 ELSE yaw

Command(roll, pitch, yaw, quat, throttle, pid_selection, pid_data) ==
    [roll |-> roll, pitch |-> pitch, yaw |-> yaw, quat |-> quat,
     throttle |-> throttle, pid_selection |-> pid_selection, pid_data |-> pid_data]

\* _parse_command, lines 66-80, under the handlers of _receive_loop, lines 53-57.
\* res = "error": ValueError, caught; "crash": an exception the loop does not catch
parse_command(d) ==
    LET parts == d.parts
        n == Len(parts)
        bad == [res |-> "error", cmd |-> None]
    IN IF ~d.utf8 THEN bad                                   \* UnicodeDecodeError
       ELSE IF \E i \in 1..n : parts[i].k = "junk" THEN bad   \* float(x)
       ELSE IF n < 6 THEN bad                                 \* unpacking values[0:6]
       ELSE IF n - 6 # 3 THEN bad                             \* unpacking values[6:]
       ELSE IF ZeroNorm(SubSeq(parts, 1, 4)) THEN bad         \* R.from_quat
       ELSE IF parts[6].k = "nan" THEN bad                    \* int(nan)
       ELSE IF parts[6].k \in {"inf", "ninf"}
            THEN [res |-> "crash", cmd |-> None]              \* int(inf): OverflowError
       ELSE LET rot == from_quat(SubSeq(parts, 1, 4))
                e == as_euler(rot)
            IN [res |-> "ok",
                cmd |-> Command(e[1], e[2], wrap_yaw(e[3]), rot,
                                clamp(parts[5], Neg(VH_THROTTLE_LIMIT), VH_THROTTLE_LIMIT),
                                Trunc(parts[6].v),
                                <<parts[7], parts[8], parts[9]>>)]

----------------------------------------------------------------------------
(* Vehicle endpoint: control laws *)
Output(left, middle, right, throttle) ==
    [left |-> left, middle |-> middle, right |-> right, throttle |-> throttle]

\* no_pid with the left surface's gain applied to the right surface as well
no_pidSameGain(state, command) ==
    LET left == command.pitch - command.roll
        right == command.pitch + command.roll
        middle == -command.yaw
        pl == command.pid_data[1]
        pm == command.pid_data[2]
    IN Output(F(left * pl.v), F(middle * pm.v), F((-right) * pl.v), command.throttle)

\* no_pid, lines 19-28
no_pid(state, command) ==
    LET left == command.pitch - command.roll
        right == command.pitch + command.roll
        middle == -command.yaw
        pl == command.pid_data[1]
        pm == command.pid_data[2]
        pr == command.pid_data[3]
    IN Output(F(left * pl.v), F(middle * pm.v), F((-right) * pr.v), command.throttle)

\* (state.quat.inv() * command.quat).as_euler("xyz", degrees=True), line 31-32
error_euler(measured, target) ==
    IF measured = target THEN <<0, 0, 0>>
    ELSE IF measured = "I" THEN as_euler(target)
    ELSE CASE measured = "roll90" /\ target = "I" -> <<-90, 0, 0>>
           [] measured = "roll90" /\ target = "pitch10" -> <<-90, 0, -10>>
           [] measured = "roll90" /\ target = "yaw180" -> <<90, 0, 180>>

\* fabrizio_pid with the roll and pitch errors taken in the wrong order
fabrizio_pidSwapped(state, command) ==
    LET e == error_euler(state.quat, command.quat)
        roll == e[2]
        pitch == e[1]
        yaw == e[3]
        pp == command.pid_data[1]
        pr == command.pid_data[2]
        py == command.pid_data[3]
        left == pitch * pp.v + roll * pr.v
        right == pitch * pp.v - roll * pr.v
        middle == yaw * py.v
    IN Output(F(left), F(middle), F(-right), command.throttle)

\* fabrizio_pid, lines 30-47
fabrizio_pid(state, command) ==
    LET e == error_euler(state.quat, command.quat)
        roll == e[1]
        pitch == e[2]
        yaw == e[3]
        pp == command.pid_data[1]
        pr == command.pid_data[2]
        py == command.pid_data[3]
        left == pitch * pp.v + roll * pr.v
        right == pitch * pp.v - roll * pr.v
        middle == yaw * py.v
    IN Output(F(left), F(middle), F(-right), command.throttle)

\* york_pid, line 61
york_pid(state, command) == Output(F(0), F(0), F(0), F(0))

\* product of two floats of small magnitude
FMul(a, b) == (a * (b \div 1000)) \div (Unit \div 1000)

\* york_pid, lines 56-57
york_vx_next(state) == york_vx + FMul(state.ax.v, state.dt.v)
york_x_next(state) == york_x + FMul(york_vx_next(state), state.dt.v)

----------------------------------------------------------------------------
(* Vehicle endpoint: Connection *)
\* source addresses of inbound datagrams
Addrs == {[host |-> "operator"], [host |-> "other"]}

\* datagrams that reach the vehicle's port
RawCommand(q, throttle, law, g) ==
    [utf8 |-> TRUE,
     parts |-> <<Fmt6(q[1]), Fmt6(q[2]), Fmt6(q[3]), Fmt6(q[4]), throttle, law, g, g, g>>]

\* a Command datagram with three different gains
RawCommand3(q, throttle, law, g) ==
    [utf8 |-> TRUE,
     parts |-> <<Fmt6(q[1]), Fmt6(q[2]), Fmt6(q[3]), Fmt6(q[4]), throttle, law,
                 g[1], g[2], g[3]>>]

VhInbound ==
    {State_as_msg(c) : c \in TunedCommands}
    \cup {State_as_msg(State(as_quat("yaw180"), F(0), Zero3, Zero3, F(0), 0, MainPids)),
          RawCommand(as_quat("pitch10"), F(0), F(Unit), F(5000000)),   \* gains 0.5
          RawCommand3(as_quat("roll90"), F(0), F(0),
                      <<F(111111), F(200000), F(50000)>>),
          RawCommand(as_quat("roll90"), F(50 * Unit), F(0), F(111111)),
          RawCommand(QIdentity, NaN, F(0), F(111111)),           \* throttle "nan"
          RawCommand(QIdentity, F(0), PInf, F(111111)),          \* law id "inf"
          RawCommand(QIdentity, F(0), NaN, F(111111)),           \* law id "nan"
          RawCommand(QIdentity, F(0), F(0), Junk),               \* non-numeric
          RawCommand(<<F(0), F(0), F(0), F(0)>>, F(0), F(0), F(111111)),  \* zero norm
          [utf8 |-> TRUE, parts |-> <<F(0), F(0), F(0), F(Unit), F(0)>>],  \* 5 fields
          [utf8 |-> FALSE, parts |-> <<>>]}                      \* not UTF-8 text

VTimes == {t \in Epoch..MaxVTime : (t - Epoch) % 500 = 0}

\* _receive_loop, line 45
VRecvTop ==
    /\ vpc = "v_top"
    /\ vpc' = IF v_running THEN "v_recv" ELSE "done"
    /\ UNCHANGED <<opvars, estvars, pollvars, tlvars, mix_args, vnow, v_running, v_latest_command, sender_socket,
                   v_data, v_addr, v_cmd_time, cb_calls, v_rx, york_x, york_vx,
                   output>>

\* _receive_loop, lines 46-49: recvfrom times out
VRecvTimeout ==
    /\ vpc = "v_recv"
    /\ v_sock_open
    /\ vpc' = "v_top"
    /\ UNCHANGED <<opvars, estvars, pollvars, tlvars, mix_args, vnow, v_running, v_latest_command, sender_socket,
                   v_data, v_addr, v_cmd_time, cb_calls, v_rx, york_x, york_vx,
                   output>>

\* _receive_loop, lines 50-51: recvfrom raises OSError, the loop ends
VRecvError ==
    /\ vpc = "v_recv"
    /\ vpc' = "done"
    /\ UNCHANGED <<opvars, estvars, pollvars, tlvars, mix_args, vnow, v_running, v_latest_command, sender_socket,
                   v_data, v_addr, v_cmd_time, cb_calls, v_rx, york_x, york_vx,
                   output>>

\* _receive_loop, line 47: recvfrom returns datagram d from address a
VRecvData(d, a) ==
    /\ vpc = "v_recv"
    /\ v_sock_open
    /\ v_rx < MaxRx
    /\ v_rx' = v_rx + 1
    /\ v_data' = d
    /\ v_addr' = a
    /\ vpc' = "v_got"
    /\ UNCHANGED <<opvars, estvars, pollvars, tlvars, mix_args, vnow, v_running, v_latest_command, sender_socket,
                   v_cmd_time, cb_calls, york_x, york_vx, output>>

\* _receive_loop, lines 53-61
VParse ==
    /\ vpc = "v_got"
    /\ LET r == parse_command(v_data)
       IN IF r.res = "ok"
          THEN /\ v_latest_command' = r.cmd
               /\ sender_socket' = v_addr
               /\ v_cmd_time' = vnow
               /\ vpc' = "v_cb"
          ELSE /\ vpc' = IF r.res = "error" THEN "v_top" ELSE "dead"
               /\ UNCHANGED <<v_latest_command, sender_socket, v_cmd_time>>
    /\ v_data' = NoDatagram
    /\ v_addr' = None
    /\ UNCHANGED <<opvars, estvars, pollvars, tlvars, mix_args, vnow, v_running, cb_calls, v_rx, york_x, york_vx, output>>

\* _receive_loop, lines 63-64
VCallback ==
    /\ vpc = "v_cb"
    /\ cb_calls' = cb_calls + 1
    /\ vpc' = "v_top"
    /\ UNCHANGED <<opvars, estvars, pollvars, tlvars, mix_args, vnow, v_running, v_latest_command, sender_socket,
                   v_data, v_addr, v_cmd_time, v_rx, york_x, york_vx, output>>

\* get_latest, lines 82-84, and control law number law applied to what it returns
Mix(law, state) ==
    /\ v_latest_command # None
    /\ law = 2 => york_x <= MaxYorkX
    /\ mix_args' = [law |-> law, state |-> state, command |-> v_latest_command]
    /\ output' = CASE law = 0 -> no_pid(state, v_latest_command)
                   [] law = 1 -> fabrizio_pid(state, v_latest_command)
                   [] law = 2 -> york_pid(state, v_latest_command)
    /\ IF law = 2
       THEN york_vx' = york_vx_next(state) /\ york_x' = york_x_next(state)
       ELSE UNCHANGED <<york_x, york_vx>>
    /\ UNCHANGED <<opvars, estvars, pollvars, tlvars, vnow, v_running, v_latest_command, sender_socket, vpc,
                   v_data, v_addr, v_cmd_time, cb_calls, v_rx>>

\* the vehicle's clock advances
VTick(t) ==
    /\ t > vnow
    /\ vnow' = t
    /\ UNCHANGED <<opvars, estvars, pollvars, tlvars, mix_args, v_running, v_latest_command, sender_socket, vpc,
                   v_data, v_addr, v_cmd_time, cb_calls, v_rx, york_x, york_vx,
                   output>>

NextVehicle ==
    \/ VRecvTop
    \/ VRecvTimeout
    \/ VRecvError
    \/ \E d \in VhInbound, a \in Addrs : VRecvData(d, a)
    \/ VParse
    \/ VCallback
    \/ \E law \in 0..2, state \in ImuStates : Mix(law, state)
    \/ \E t \in VTimes : VTick(t)

SpecVehicle == Init /\ [][NextVehicle]_vars

----------------------------------------------------------------------------
(* Vehicle endpoint: the estimator's poll loop, send_state and close *)

\* the loop with its stop test left out
ImuTopNoStop ==
    /\ imu_pc = "i_top"
    /\ imu_pc' = "i_read"
    /\ tick_log' = <<>>
    /\ UNCHANGED <<opvars, estvars, vnow, v_running, v_latest_command, sender_socket, vpc,
                   v_data, v_addr, v_cmd_time, cb_calls, v_rx, york_x, york_vx,
                   output, mix_args, imu_fails, v_sock_open, v_out, vcl_pc, duty,
                   stop_event, mcl_pc, imu_state>>

\* _monitor_loop, line 131: the loop tests _stop_event and starts a tick
ImuTop ==
    /\ imu_pc = "i_top"
    /\ imu_pc' = IF stop_event THEN "done" ELSE "i_read"
    /\ tick_log' = <<>>
    /\ UNCHANGED <<opvars, estvars, vnow, v_running, v_latest_command, sender_socket, vpc,
                   v_data, v_addr, v_cmd_time, cb_calls, v_rx, york_x, york_vx,
                   output, mix_args, imu_fails, v_sock_open, v_out, vcl_pc, duty,
                   stop_event, mcl_pc, imu_state>>

\* a failed read after which the loop invokes on_update all the same
ImuReadFailNotifies ==
    /\ imu_pc = "i_read"
    /\ imu_fails' = IF imu_fails < MaxFails THEN imu_fails + 1 ELSE imu_fails
    /\ tick_log' = Append(tick_log, [ev |-> "update", state |-> imu_state])
    /\ imu_pc' = "i_top"
    /\ UNCHANGED <<opvars, estvars, vnow, v_running, v_latest_command, sender_socket, vpc,
                   v_data, v_addr, v_cmd_time, cb_calls, v_rx, york_x, york_vx,
                   output, mix_args, v_sock_open, v_out, vcl_pc, duty,
                   stop_event, mcl_pc, imu_state>>

\* _monitor_loop, lines 132-137: read_scaled raises; print, wait, continue
\* (imu_fails counts the failures in a row up to MaxFails)
ImuReadFail ==
    /\ imu_pc = "i_read"
    /\ imu_fails' = IF imu_fails < MaxFails THEN imu_fails + 1 ELSE imu_fails
    /\ imu_pc' = "i_top"
    /\ UNCHANGED <<opvars, estvars, vnow, v_running, v_latest_command, sender_socket, vpc,
                   v_data, v_addr, v_cmd_time, cb_calls, v_rx, york_x, york_vx,
                   output, mix_args, v_sock_open, v_out, vcl_pc, duty, pollvars>>

\* send_state, lines 86-98: what sock.sendto is handed, if anything
send_state(state) ==
    LET target == sender_socket
        throttle == IF v_latest_command # None THEN v_latest_command.throttle
                    ELSE F(0)
    IN IF target = None \/ ~v_sock_open THEN v_out
       ELSE [payload |-> ImuState_as_msg(state, throttle), target |-> target]

\* _monitor_loop, lines 133 and 139-172: read_scaled returns, the estimator
\* produces state and publishes it as _state
ImuReadOk(state) ==
    /\ imu_pc = "i_read"
    /\ mcl_pc # "m_done"
    /\ imu_fails' = 0
    /\ imu_state' = state
    /\ tick_log' = Append(tick_log, [ev |-> "publish", state |-> state])
    /\ imu_pc' = "i_send"
    /\ UNCHANGED <<opvars, estvars, vnow, v_running, v_latest_command, sender_socket, vpc,
                   v_data, v_addr, v_cmd_time, cb_calls, v_rx, york_x, york_vx,
                   output, mix_args, v_sock_open, v_out, vcl_pc, duty,
                   stop_event, mcl_pc>>

\* the tick with on_update invoked before send_state
ImuSendFirstNotifies ==
    /\ imu_pc = "i_send"
    /\ v_out' = send_state(imu_state)
    /\ tick_log' = Append(Append(tick_log, [ev |-> "update", state |-> imu_state]),
                          [ev |-> "send", state |-> imu_state])
    /\ imu_pc' = "i_top"
    /\ UNCHANGED <<opvars, estvars, vnow, v_running, v_latest_command, sender_socket, vpc,
                   v_data, v_addr, v_cmd_time, cb_calls, v_rx, york_x, york_vx,
                   output, mix_args, imu_fails, v_sock_open, vcl_pc, duty,
                   stop_event, mcl_pc, imu_state>>

\* _monitor_loop, lines 174-175: send_state(state)
ImuSend ==
    /\ imu_pc = "i_send"
    /\ v_out' = send_state(imu_state)
    /\ tick_log' = Append(tick_log, [ev |-> "send", state |-> imu_state])
    /\ imu_pc' = "i_upd"
    /\ UNCHANGED <<opvars, estvars, vnow, v_running, v_latest_command, sender_socket, vpc,
                   v_data, v_addr, v_cmd_time, cb_calls, v_rx, york_x, york_vx,
                   output, mix_args, imu_fails, v_sock_open, vcl_pc, duty,
                   stop_event, mcl_pc, imu_state>>

\* _monitor_loop, lines 177-180: on_update() is invoked, then the wait
ImuUpdate ==
    /\ imu_pc = "i_upd"
    /\ tick_log' = Append(tick_log, [ev |-> "update", state |-> imu_state])
    /\ imu_pc' = "i_top"
    /\ UNCHANGED <<opvars, estvars, vnow, v_running, v_latest_command, sender_socket, vpc,
                   v_data, v_addr, v_cmd_time, cb_calls, v_rx, york_x, york_vx,
                   output, mix_args, imu_fails, v_sock_open, v_out, vcl_pc, duty,
                   stop_event, mcl_pc, imu_state>>

\* MPU6050.close, line 74
MCloseStop ==
    /\ mcl_pc = "m_run"
    /\ stop_event' = TRUE
    /\ mcl_pc' = "m_join"
    /\ UNCHANGED <<opvars, estvars, tlvars, vnow, v_running, v_latest_command,
                   sender_socket, vpc, v_data, v_addr, v_cmd_time, cb_calls, v_rx,
                   york_x, york_vx, output, mix_args, imu_state, tick_log>>

\* MPU6050.close, lines 75-79: join returns, the loop finished or 1 s passed
MCloseJoin ==
    /\ mcl_pc = "m_join"
    /\ mcl_pc' = "m_i2c"
    /\ UNCHANGED <<opvars, estvars, tlvars, vnow, v_running, v_latest_command,
                   sender_socket, vpc, v_data, v_addr, v_cmd_time, cb_calls, v_rx,
                   york_x, york_vx, output, mix_args, stop_event, imu_state, tick_log>>

\* MPU6050.close, lines 80-81: i2c.close(); reads fail from here on
MCloseI2c ==
    /\ mcl_pc = "m_i2c"
    /\ mcl_pc' = "m_done"
    /\ UNCHANGED <<opvars, estvars, tlvars, vnow, v_running, v_latest_command,
                   sender_socket, vpc, v_data, v_addr, v_cmd_time, cb_calls, v_rx,
                   york_x, york_vx, output, mix_args, stop_event, imu_state, tick_log>>

\* close, line 101
VCloseStop ==
    /\ vcl_pc = "c_run"
    /\ v_running' = FALSE
    /\ vcl_pc' = "c_join"
    /\ UNCHANGED <<opvars, estvars, pollvars, vnow, v_latest_command, sender_socket, vpc,
                   v_data, v_addr, v_cmd_time, cb_calls, v_rx, york_x, york_vx,
                   output, mix_args, imu_pc, imu_fails, v_sock_open, v_out, duty>>

\* close, lines 102-105: join returns, the receiver finished or 0.5 s passed
VCloseJoin ==
    /\ vcl_pc = "c_join"
    /\ vcl_pc' = "c_sock"
    /\ UNCHANGED <<opvars, estvars, pollvars, vnow, v_running, v_latest_command, sender_socket, vpc,
                   v_data, v_addr, v_cmd_time, cb_calls, v_rx, york_x, york_vx,
                   output, mix_args, imu_pc, imu_fails, v_sock_open, v_out, duty>>

\* close, lines 106-109
VCloseSocket ==
    /\ vcl_pc = "c_sock"
    /\ v_sock_open' = FALSE
    /\ vcl_pc' = "c_done"
    /\ UNCHANGED <<opvars, estvars, pollvars, vnow, v_running, v_latest_command, sender_socket, vpc,
                   v_data, v_addr, v_cmd_time, cb_calls, v_rx, york_x, york_vx,
                   output, mix_args, imu_pc, imu_fails, v_out, duty>>

\* datagrams that reach the vehicle while telemetry is running
TelemetryInbound ==
    {State_as_msg(c) : c \in Commands}
    \cup {RawCommand(QIdentity, F(0), F(0), Junk),
          RawCommand(QIdentity, F(0), F(7 * Unit), F(111111))}   \* law id "7"

NextTelemetry ==
    \/ VRecvTop
    \/ VRecvTimeout
    \/ VRecvError
    \/ \E d \in TelemetryInbound, a \in Addrs : VRecvData(d, a)
    \/ VParse
    \/ VCallback
    \/ ImuTop
    \/ ImuReadFail
    \/ \E state \in ImuStates : ImuReadOk(state)
    \/ ImuSend
    \/ ImuUpdate
    \/ VCloseStop
    \/ VCloseJoin
    \/ VCloseSocket
    \/ \E t \in VTimes : VTick(t)

SpecTelemetry == Init /\ [][NextTelemetry]_vars

----------------------------------------------------------------------------
(* Legacy vehicle main: Command to PWM pulse widths *)

\* pulse widths are in hundredths of a microsecond
Us(n) == n * 100
\* x * k for a float x, as a pulse width
Scaled(x, k) == ((x.v \div 1000) * k) \div 100

\* test.py lines 10-14: (min, base, max) of each control surface
LEFT_LIMITS == <<F(-9000000), F(0), F(9000000)>>
MIDDLE_LIMITS == <<F(-5000000), F(1500000), F(8000000)>>
RIGHT_LIMITS == <<F(-9000000), F(0), F(9000000)>>
THRUST_LIMITS == <<F(-Unit), F(0), F(Unit)>>

\* clamp on pulse widths
clampUs(value, min_value, max_value) ==
    IF value > max_value THEN max_value
    ELSE IF value < min_value THEN min_value ELSE value

\* the pulse width without the clamp into 1000..2000
DutyUnclamped(value) ==
    IF value.k = "num" THEN Us(1500) + Scaled(value, 5) ELSE Us(2000)

\* server/__init__.py lines 118-121: clamp(1500 + value * 5, 1000, 2000);
\* max(1000, min(2000, x)) gives 2000 for x nan or inf and 1000 for x -inf
Duty(value) ==
    IF value.k = "num" THEN clampUs(Us(1500) + Scaled(value, 5), Us(1000), Us(2000))
    ELSE IF value.k = "ninf" THEN Us(1000) ELSE Us(2000)

\* PWM_PERIOD_US = 1_000_000 / PWM_FREQUENCY, in microseconds
PWM_PERIOD_US == 20000

\* pulse width / PWM_PERIOD_US, in millionths
DutyCycle(width) == width \div (Us(PWM_PERIOD_US) \div 1000000)

\* 1 - fraction, in millionths
Inverted(fraction) == 1000000 - fraction

\* a + b and a - b on floats
FAdd(a, b) ==
    IF a.k = "num" /\ b.k = "num" THEN F(a.v + b.v)
    ELSE IF a.k = "nan" \/ b.k = "nan" THEN NaN
    ELSE IF a.k = "num" THEN b
    ELSE IF b.k = "num" \/ a.k = b.k THEN a
    ELSE NaN
FSub(a, b) == FAdd(a, Neg(b))

\* parse_quaternion_command, lines 20-35, under the handler of main, lines 108-112
parse_quaternion_command(d) ==
    LET parts == d.parts
        n == Len(parts)
        bad == [res |-> "error", cmd |-> None]
    IN IF ~d.utf8 THEN [res |-> "crash", cmd |-> None]       \* UnicodeDecodeError
       ELSE IF \E i \in 1..n : parts[i].k = "junk" THEN bad   \* float(x)
       ELSE IF n # 5 THEN bad                                 \* unpacking
       ELSE IF ZeroNorm(SubSeq(parts, 1, 4)) THEN bad         \* R.from_quat
       ELSE LET e == as_euler(from_quat(SubSeq(parts, 1, 4)))
            IN [res |-> "ok",
                cmd |-> [roll |-> e[1], pitch |-> e[2], yaw |-> wrap_yaw(e[3]),
                         throttle |-> clamp(parts[5], Neg(VH_THROTTLE_LIMIT),
                                            VH_THROTTLE_LIMIT)]]

\* the PWM devices after main's finally block
Disabled == [disabled |-> TRUE]

LegacyThrottles ==
    {F(t * (Unit \div 10)) : t \in {-1200, -1000, -750, -500, -250, -100, -10, -5, 0,
                                    5, 10, 100, 250, 500, 750, 999, 1000, 1200}}

\* datagrams that reach the legacy main's port
LegacyInbound ==
    {[utf8 |-> TRUE,
      parts |-> Fmt6Quat(as_quat(r)) \o <<t>>] : r \in Rotations, t \in LegacyThrottles}
    \cup {[utf8 |-> TRUE, parts |-> Fmt6Quat(QIdentity) \o <<t>>] : t \in {NaN, PInf, NInf}}
    \cup {[utf8 |-> TRUE, parts |-> <<F(0), F(0), F(0), F(0), F(0)>>],   \* zero norm
          [utf8 |-> TRUE, parts |-> <<F(0), F(0), F(0), F(Unit)>>],      \* 4 fields
          [utf8 |-> TRUE, parts |-> <<F(0), F(0), Junk, F(Unit), F(0)>>],
          [utf8 |-> FALSE, parts |-> <<>>]}

\* main, lines 106-131: one pass of the loop on datagram d; an uncaught
\* exception runs the finally block, lines 133-148
LegacyMain(d) ==
    /\ duty # Disabled
    \* the process that runs is this main
    /\ IF duty = None THEN TRUE ELSE duty.motor_inverted
    /\ LET r == parse_quaternion_command(d)
           left == F((r.cmd.pitch + r.cmd.roll) * Unit)
           right == F((r.cmd.pitch - r.cmd.roll) * Unit)
           middle == F(r.cmd.yaw * Unit)
       IN duty' = IF r.res = "crash" THEN Disabled
                  ELSE IF r.res = "error" THEN duty
                  ELSE [left |-> left, right |-> right, middle |-> middle,
                        throttle |-> r.cmd.throttle,
                        left_duty |-> Duty(left),
                        right_duty |-> Duty(right),
                        middle_duty |-> Duty(middle),
                        motor_duty |-> Duty(r.cmd.throttle),
                        left_cycle |-> DutyCycle(Duty(left)),
                        right_cycle |-> DutyCycle(Duty(right)),
                        middle_cycle |-> DutyCycle(Duty(middle)),
                        motor_cycle |-> Inverted(DutyCycle(Duty(r.cmd.throttle))),
                        motor_inverted |-> TRUE]
    /\ UNCHANGED <<opvars, estvars, pollvars, vnow, v_running, v_latest_command, sender_socket, vpc,
                   v_data, v_addr, v_cmd_time, cb_calls, v_rx, york_x, york_vx,
                   output, mix_args, imu_pc, imu_fails, v_sock_open, v_out, vcl_pc>>

\* datagrams "roll,pitch,yaw,speed" that reach the port of server.py
ServerInbound ==
    {[utf8 |-> TRUE, parts |-> <<roll, pitch, yaw, speed>>] :
        roll \in {F(0), F(100 * Unit), NaN, PInf},
        pitch \in {F(0), F(-100 * Unit), NInf},
        yaw \in {F(0), F(180 * Unit)},
        speed \in {F(-100 * Unit), F(0), F(100 * Unit), F(150 * Unit), NaN}}
    \cup {[utf8 |-> TRUE, parts |-> <<F(0), F(0), F(0)>>],          \* 3 fields
          [utf8 |-> TRUE, parts |-> <<F(0), Junk, F(0), F(0)>>],    \* non-numeric
          [utf8 |-> FALSE, parts |-> <<>>]}                         \* not UTF-8 text

\* server.py main, lines 25-49: one pass of the loop on datagram d; a decode
\* error is not handled and runs the finally block, lines 51-58
ServerMain(d) ==
    /\ duty # Disabled
    \* the process that runs is server.py
    /\ IF duty = None THEN TRUE ELSE ~duty.motor_inverted
    /\ IF ~d.utf8 \/ Len(d.parts) # 4 \/ \E i \in 1..Len(d.parts) : d.parts[i].k = "junk"
       THEN duty' = Disabled
       ELSE LET roll == d.parts[1]
                pitch == d.parts[2]
                yaw == d.parts[3]
                speed == d.parts[4]
                left == FAdd(pitch, roll)
                right == FSub(pitch, roll)
                middle == yaw
            IN duty' = [left |-> left, right |-> right, middle |-> middle,
                        throttle |-> speed,
                        left_duty |-> Duty(left),
                        right_duty |-> Duty(right),
                        middle_duty |-> Duty(middle),
                        motor_duty |-> Duty(speed),
                        left_cycle |-> DutyCycle(Duty(left)),
                        right_cycle |-> DutyCycle(Duty(right)),
                        middle_cycle |-> DutyCycle(Duty(middle)),
                        motor_cycle |-> DutyCycle(Duty(speed)),
                        motor_inverted |-> FALSE]
    /\ UNCHANGED <<opvars, estvars, pollvars, vnow, v_running, v_latest_command, sender_socket, vpc,
                   v_data, v_addr, v_cmd_time, cb_calls, v_rx, york_x, york_vx,
                   output, mix_args, imu_pc, imu_fails, v_sock_open, v_out, vcl_pc>>

NextActuator ==
    \/ \E d \in LegacyInbound : LegacyMain(d)
    \/ \E d \in ServerInbound : ServerMain(d)
    \/ \E t \in VTimes : VTick(t)

SpecActuator == Init /\ [][NextActuator]_vars

----------------------------------------------------------------------------
(* Vehicle endpoint: properties *)

\* the neutral Command: identity orientation, zero throttle
IsNeutral(command) == command.quat = "I" /\ command.throttle = F(0)

\* C5: when no Command has been received for an extended period (here the
\* 5 s staleness timeout), the Command the vehicle acts on is neutral
C5_StaleFailsafe ==
    (v_latest_command # None /\ vnow - v_cmd_time >= STATE_TIMEOUT)
        => IsNeutral(v_latest_command)

InUnitRange(x) == x.k = "num" /\ -Unit <= x.v /\ x.v <= Unit

\* C6: every Output a control law returns has left, middle, right and
\* throttle in [-1, 1]
C6_OutputBounded ==
    output # None
        => /\ InUnitRange(output.left)
           /\ InUnitRange(output.middle)
           /\ InUnitRange(output.right)
           /\ InUnitRange(output.throttle)

\* wrong field count, a non-numeric or non-finite field, an invalid
\* quaternion, or bytes that are not text
DecodeFails(d) ==
    \/ ~d.utf8
    \/ Len(d.parts) # 9
    \/ \E i \in 1..Len(d.parts) : d.parts[i].k # "num"
    \/ ZeroNorm(d.parts)

\* the vehicle's receive loop finishes with the datagram it holds
VHandles == vpc = "v_got" /\ vpc' # "v_got"

\* C10: a datagram that fails to decode is dropped: the latest Command and
\* the reply target stay as they were, on_command is not invoked, and the
\* loop goes on to the next datagram
C10_MalformedDropped ==
    [][(VHandles /\ DecodeFails(v_data))
         => /\ vpc' = "v_top"
            /\ v_latest_command' = v_latest_command
            /\ sender_socket' = sender_socket
            /\ cb_calls' = cb_calls]_vars

\* C11: the reply target is the source address of the most recent well-formed
\* datagram: a well-formed datagram makes its own source address the reply
\* target together with its Command, and a datagram that fails to decode
\* leaves the reply target as it was
C11_ReplyTarget ==
    [][VHandles
         => IF DecodeFails(v_data)
            THEN sender_socket' = sender_socket
            ELSE /\ sender_socket' = v_addr
                 /\ v_latest_command' = parse_command(v_data).cmd]_vars

\* get_state has read display_state and now reads last_received_time
Snapshots == pc["main"] = "m_get" /\ pc'["main"] = "m_shown"

\* C12: the last_received_time get_state returns is the receipt time of the
\* display_state it returns: a state read after its receipt time was stored
\* comes with that time, and a received state never comes with no time at all
C12_ConsistentSnapshot ==
    [][Snapshots
         => /\ snap.stamped => last_received_time = snap.last0
            /\ (~snap.stamped /\ snap.last0 = NoTime)
                  => last_received_time # NoTime]_vars

\* C13: Control Law 1 returns left = pitch_err*P_pitch + roll_err*P_roll,
\* right = pitch_err*P_pitch - roll_err*P_roll negated, middle = yaw_err*P_yaw
\* and the throttle unchanged, the errors being the Euler components of
\* measured^-1 * target; measured = target gives zero on the three surfaces
\* whatever the gains, and a +10 degree pitch error with P_pitch = 0.5 gives
\* left = 5.0, right = 5.0 before the inversion and middle = 0
C13_Law1 ==
    (mix_args # None /\ mix_args.law = 1)
        => LET e == error_euler(mix_args.state.quat, mix_args.command.quat)
               g == mix_args.command.pid_data
               left == e[2] * g[1].v + e[1] * g[2].v
               right == e[2] * g[1].v - e[1] * g[2].v
               middle == e[3] * g[3].v
           IN /\ output = Output(F(left), F(middle), F(-right),
                                 mix_args.command.throttle)
              /\ mix_args.state.quat = mix_args.command.quat
                    => output.left = F(0) /\ output.right = F(0)
                         /\ output.middle = F(0)
              /\ (e = <<0, 10, 0>> /\ g[1] = F(Unit \div 2))
                    => output.left = F(5 * Unit) /\ output.right = F(-5 * Unit)
                         /\ output.middle = F(0)

\* Law 1 has run on a level vehicle with a target pitched 10 degrees and
\* P_pitch = 0.5
C13_Witness ==
    /\ mix_args # None
    /\ mix_args.law = 1
    /\ mix_args.state.quat = "I"
    /\ mix_args.command.quat = "pitch10"
    /\ mix_args.command.pid_data[1] = F(Unit \div 2)
    /\ output.left = F(5 * Unit)
    /\ output.right = F(-5 * Unit)

\* C14 as stated: Control Law 0 computes left = (pitch - roll)*g1 and
\* right = (pitch + roll)*g1 with the same gain g1 (of either sign, by the
\* mounting), middle = -yaw*g2, throttle passed through
C14_SameGain ==
    (mix_args # None /\ mix_args.law = 0)
        => LET c == mix_args.command
               g1 == c.pid_data[1]
               g2 == c.pid_data[2]
           IN /\ output.left = F((c.pitch - c.roll) * g1.v)
              /\ output.right \in {F((c.pitch + c.roll) * g1.v),
                                   F(-((c.pitch + c.roll) * g1.v))}
              /\ output.middle = F((-c.yaw) * g2.v)
              /\ output.throttle = c.throttle

\* C14 amended: Control Law 0 ignores the measured State and computes
\* left = (pitch - roll)*g_left, right = (pitch + roll)*g_right returned
\* negated, middle = -yaw*g_middle, where (g_left, g_middle, g_right) is the
\* gain triple of the Command in wire order, throttle passed through
C14_OwnGains ==
    (mix_args # None /\ mix_args.law = 0)
        => LET c == mix_args.command
               g == c.pid_data
           IN /\ output = Output(F((c.pitch - c.roll) * g[1].v),
                                 F((-c.yaw) * g[2].v),
                                 F(-((c.pitch + c.roll) * g[3].v)),
                                 c.throttle)
              /\ \A s \in ImuStates : no_pid(s, c) = output

\* Law 0 has run on a Command whose left and right gains differ and whose
\* pitch + roll is not zero
C14_Witness ==
    /\ mix_args # None
    /\ mix_args.law = 0
    /\ mix_args.command.pid_data[1] # mix_args.command.pid_data[3]
    /\ mix_args.command.pitch + mix_args.command.roll # 0
    /\ output.right = F(-((mix_args.command.pitch + mix_args.command.roll)
                             * mix_args.command.pid_data[3].v))

Mapped(value, limits) ==
    clampUs(Us(1500)
              + Scaled(clamp(F(value.v + limits[2].v), limits[1], limits[3]), 500),
            Us(1000), Us(2000))

\* C15: the pulse width written to each channel is clamp(1500 +
\* clamp(value + trim, min, max)*500, 1000, 2000) with that channel's
\* (min, trim, max) envelope; value 0.0 with envelope (-0.8, 0.03, 0.8)
\* gives 1515 microseconds
C15_ActuatorMapping ==
    /\ Mapped(F(0), <<F(-8000000), F(300000), F(8000000)>>) = Us(1515)
    /\ duty \notin {None, Disabled}
          => /\ duty.left_duty = Mapped(duty.left, LEFT_LIMITS)
             /\ duty.right_duty = Mapped(duty.right, RIGHT_LIMITS)
             /\ duty.middle_duty = Mapped(duty.middle, MIDDLE_LIMITS)
             /\ duty.motor_duty = Mapped(duty.throttle, THRUST_LIMITS)

\* C16: sensor reads that keep failing are surfaced as a terminal error: once
\* MaxFails reads in a row have failed, the poll loop has stopped with an
\* error instead of polling on
C16_FailuresSurfaced ==
    imu_fails >= MaxFails => imu_pc = "error"

\* the neutral State as a datagram: identity quaternion, every other field zero
NeutralStateMsg ==
    [utf8 |-> TRUE,
     parts |-> <<F(0), F(0), F(0), F(Unit), F(0), F(0), F(0), F(0), F(0), F(0),
                 F(0), F(0)>>]

\* C17: when close() closes the vehicle's socket, the datagram sent last is
\* the neutral State, sent to the recorded reply target
C17_NeutralOnClose ==
    [][(v_sock_open /\ ~v_sock_open' /\ sender_socket # None)
         => /\ v_out # None
            /\ v_out.target = sender_socket
            /\ v_out.payload = NeutralStateMsg]_vars

\* C18: the status lines of a connected link that delivered data once and is
\* now stale differ from the status lines of a connected link that never
\* delivered data
C18_StaleDistinguished ==
    (pc["main"] = "m_shown" /\ rendered.connected /\ ~rendered.fresh
       /\ rendered.last # NoTime)
        => rendered.status
             # status_lines(TRUE, FALSE, NoTime, rendered.error, rendered.now)

\* C19: while telemetry is stale render returns a synthesized state with the
\* orientation and throttle of the current target; when telemetry is fresh
\* it returns exactly the State get_state handed it
C19_FallbackOrReceived ==
    pc["main"] = "m_shown"
        => /\ ~rendered.fresh
                => /\ rendered.display_state.quat = rendered.target.quat
                   /\ rendered.display_state.throttle = rendered.target.throttle
           /\ rendered.fresh => rendered.display_state = rendered.received

\* render has run on telemetry gone stale whose orientation and throttle
\* differ from the target's, and returned the target's
C19_Witness ==
    /\ pc["main"] = "m_shown"
    /\ ~rendered.fresh
    /\ rendered.last # NoTime
    /\ rendered.received.quat # rendered.target.quat
    /\ rendered.received.throttle # rendered.target.throttle
    /\ disp.prev_quat = rendered.target.quat
    /\ rendered.display_state.quat = rendered.target.quat

\* the Output that control law `law` returns for these arguments
LawOutput(law, state, command) ==
    CASE law = 0 -> no_pid(state, command)
      [] law = 1 -> fabrizio_pid(state, command)
      [] law = 2 -> york_pid(state, command)

ZeroCommanded(o) == o = Output(F(0), F(0), F(0), F(0))

\* C21: the Output returned by control law 2 differs from the Output with
\* which law 0 or law 1 commands zero on every channel for the same arguments
C21_NoAuthorityDistinct ==
    (mix_args # None /\ mix_args.law = 2)
        => \A law \in {0, 1} :
              ZeroCommanded(LawOutput(law, mix_args.state, mix_args.command))
                 => output # LawOutput(law, mix_args.state, mix_args.command)

\* C22: the Command the vehicle endpoint holds as the latest one has a
\* control-law id of 0, 1 or 2
C22_LawIdInRange ==
    v_latest_command # None => v_latest_command.pid_selection \in {0, 1, 2}

\* C23: while the vehicle endpoint has not been closed, its receive loop does
\* not end at the receive call: after a receive it is back at the loop head
\* or holds a datagram
C23_ReceiveErrorRecoverable ==
    [][(vpc = "v_recv" /\ vpc' # "v_recv" /\ v_running /\ v_sock_open)
          => vpc' \in {"v_top", "v_got"}]_vars

----------------------------------------------------------------------------
(* Vehicle endpoint: the attitude estimator, mpu6050.py _monitor_loop.      *)
(* Angles are in thousandths of a degree.  The loop's Rotation is held as   *)
(* its "xyz" Euler angles (roll, pitch, yaw), pitch strictly inside +-90.   *)

MaxTicks == 4

\* complementary filter weight, in percent
alpha == 96

\* an angle brought into (-180, 180] degrees, the range as_euler reports
WrapDeg(a) ==
    LET m == (a + 180000) % 360000
    IN IF m = 0 THEN 180000 ELSE m - 180000

\* what read_scaled returned (accelerations in g, rates in deg/s) and the
\* time since the previous tick in milliseconds
InertialSample(ax, ay, az, gx, gz, dt) ==
    [ax |-> ax, ay |-> ay, az |-> az, gx |-> gx, gy |-> 0, gz |-> gz, dt |-> dt]

InertialSamples ==
    {InertialSample(0, 0, 1, 0, 0, 50),      \* level, at rest
     InertialSample(0, 1, 1, 0, 0, 50),      \* gravity 45 degrees off in roll
     InertialSample(0, 1, 0, 0, 0, 50),      \* gravity 90 degrees off in roll
     InertialSample(-1, 0, 1, 0, 0, 50),     \* gravity 45 degrees off in pitch
     InertialSample(0, 0, 1, 20, 0, 50),     \* rolling at 20 deg/s
     InertialSample(0, 0, 1, 125, 0, 375),   \* rolling at 125 deg/s, a late tick
     InertialSample(0, 0, 1, 0, 90, 50)}     \* yawing at 90 deg/s

\* line 143: the rotation by the integrated rates, about x and about z
delta_rot(s) == [x |-> s.gx * s.dt, z |-> s.gz * s.dt]

\* the products this model computes: a rotation about x appended to any
\* orientation, a rotation about z appended to a pure yaw
Composable(o, d) == d.z = 0 \/ (d.x = 0 /\ o.roll = 0 /\ o.pitch = 0)

\* line 144 and line 150: orientation * delta_rot, read back by as_euler
Compose(o, d) ==
    [roll |-> WrapDeg(o.roll + d.x), pitch |-> o.pitch, yaw |-> WrapDeg(o.yaw + d.z)]

\* math.degrees(math.atan2(y, x)) for the readings of InertialSamples
atan2_deg(y, x) ==
    CASE y = 0 /\ x >= 0 -> 0
      [] y = 0 /\ x < 0 -> 180000
      [] x = 0 /\ y > 0 -> 90000
      [] x = 0 /\ y < 0 -> -90000
      [] x = y /\ x > 0 -> 45000
      [] x = -y /\ x > 0 -> -45000
      [] x = -y /\ x < 0 -> 135000
      [] x = y /\ x < 0 -> -135000

\* line 147
roll_acc(s) == atan2_deg(s.ay, s.az)

\* line 148; the square root is exact for the readings of InertialSamples
pitch_acc(s) ==
    LET h == (s.ay * s.ay) + (s.az * s.az)
    IN atan2_deg(-s.ax, IF h = 0 THEN 0 ELSE 1)

\* the blend with both terms weighted by alpha
blendBothAlpha(est, acc) == DivZ((alpha * est) + (alpha * acc), 100)

\* lines 151-152: alpha * est + (1 - alpha) * acc
blend(est, acc) == DivZ((alpha * est) + ((100 - alpha) * acc), 100)

\* _wrap_yaw, lines 183-187
mpu_wrap_yaw(yaw) ==
    IF yaw > 180000 \/ yaw < -180000
    THEN ((yaw + 180000) % 360000) - 180000
    ELSE yaw

\* line 157: R.from_euler("xyz", [roll, pitch, wrapped_yaw])
from_euler(roll, pitch, yaw) ==
    [roll |-> WrapDeg(roll), pitch |-> pitch, yaw |-> WrapDeg(yaw)]

\* one tick of the monitor loop, lines 139-157
Estimate(s) ==
    /\ ticks < MaxTicks
    /\ Composable(orientation, delta_rot(s))
    /\ LET est == Compose(orientation, delta_rot(s))
           roll == blend(est.roll, roll_acc(s))
           pitch == blend(est.pitch, pitch_acc(s))
           wrapped_yaw == mpu_wrap_yaw(est.yaw)
       IN orientation' = from_euler(roll, pitch, wrapped_yaw)
    /\ sample' = s
    /\ ticks' = ticks + 1
    /\ UNCHANGED <<opvars, tlvars, pollvars, vnow, v_running, v_latest_command,
                   sender_socket, vpc, v_data, v_addr, v_cmd_time, cb_calls,
                   v_rx, york_x, york_vx, output, mix_args, wrap_in, wrap_out>>

NextEstimator == \E s \in InertialSamples : Estimate(s)

SpecEstimator == Init /\ [][NextEstimator]_vars

\* the tick just made had zero gyro rates
ZeroRateTick == ticks' = ticks + 1 /\ sample'.gx = 0 /\ sample'.gy = 0 /\ sample'.gz = 0

\* C24 as stated: a tick with zero gyro rates, whatever the accelerometer
\* reads, leaves the estimator's orientation as it was
C24_ZeroRateUnchanged ==
    [][ZeroRateTick => orientation' = orientation]_vars

\* C24: a tick with zero gyro rates whose accelerometer reading gives the
\* roll and pitch the estimator already holds leaves its orientation as it was
C24_ZeroRateAgreeing ==
    [][(ZeroRateTick /\ roll_acc(sample') = orientation.roll
                     /\ pitch_acc(sample') = orientation.pitch)
          => orientation' = orientation]_vars

\* a zero-rate tick has been made at a roll of 45 degrees with the
\* accelerometer reading 45 degrees
C24_Witness ==
    /\ ticks >= 2
    /\ sample # None
    /\ sample.gx = 0 /\ sample.gy = 0 /\ sample.gz = 0
    /\ roll_acc(sample) = 45000
    /\ orientation = [roll |-> 45000, pitch |-> 0, yaw |-> 0]

\* C26: when the send loop records a Command in last_sent_state after a
\* transmit, it records the Command that was handed to the socket
C26_MarksWhatWasSent ==
    [][(pc["tx"] = "s_mark" /\ pc'["tx"] # "s_mark")
          => last_sent_state' = last_tx_state]_vars

\* C27: a pending Command that the send loop regards as sent (it equals
\* last_sent_state, so the loop will not transmit it) is the Command that
\* was transmitted last
C27_PendingNotLost ==
    (pending_state # None /\ pending_state = last_sent_state)
        => last_tx_state = pending_state

\* C28: at every transmit made by the send loop sock_connected is true
C28_TransmitWhileHealthy ==
    [][Transmits => sock_connected]_vars

\* the send loop's sock.send raises OSError
TransmitFails == pc["tx"] = "s_send" /\ pc'["tx"] = "s_top"

\* thread th starts a connect attempt
Attempts(th) == pc[th] = "e_mark" /\ pc'[th] = "e_connect"

\* C29: a failed transmit marks the binding unhealthy and leaves
\* last_sent_state as it was, and every connect attempt that follows it, until
\* one succeeds, starts at a time the backoff rule of _ensure_connected permits
C29_FailedTransmit ==
    [][/\ TransmitFails => (~sock_connected' /\ last_sent_state' = last_sent_state)
       /\ \A th \in Threads :
             (send_failed /\ Attempts(th))
                => ~EnsureSuppressed(enow[th], next_connect_time,
                                     last_connect_attempt)]_vars

\* C30: when the latest connect attempt, started at time t, has failed, no
\* loop starts a further connect attempt before t + 5 s
C30_NoAttemptWithin5s ==
    [][\A th \in Threads :
          (Attempts(th) /\ att_result = "fail") => now >= att_start + 500]_vars

----------------------------------------------------------------------------
(* Shutting down: close() of each endpoint while its loops run.  The two    *)
(* endpoints are separate processes; a run follows one of them and starts   *)
(* with the other one already closed.                                       *)

\* the operator endpoint after close() has returned and its loops have ended
OpClosed ==
    /\ now = Epoch
    /\ sock_connected = FALSE
    /\ connect_error = "None"
    /\ last_connect_attempt = 0
    /\ next_connect_time = 0
    /\ last_received_time = NoTime
    /\ display_state = State0
    /\ running = FALSE
    /\ pending_state = None
    /\ last_sent_state = None
    /\ os_peer = FALSE
    /\ sock_open = FALSE
    /\ pc = [rx |-> "done", tx |-> "done", main |-> "done"]
    /\ enow = [rx |-> 0, tx |-> 0]
    /\ snap = None
    /\ rendered = None
    /\ disp = Display0
    /\ neutral_sent = FALSE
    /\ last_tx_state = None
    /\ att_start = NoTime
    /\ att_result = "none"
    /\ data = NoDatagram
    /\ send_failed = FALSE

\* the vehicle endpoint after both close() calls have returned and its loops
\* have ended
VhClosed ==
    /\ vnow = Epoch
    /\ v_running = FALSE
    /\ v_latest_command = None
    /\ sender_socket = None
    /\ vpc = "done"
    /\ v_data = NoDatagram
    /\ v_addr = None
    /\ v_cmd_time = NoTime
    /\ cb_calls = 0
    /\ v_rx = 0
    /\ york_x = 0
    /\ york_vx = 0
    /\ output = None
    /\ mix_args = None
    /\ imu_pc = "done"
    /\ imu_fails = 0
    /\ v_sock_open = FALSE
    /\ v_out = None
    /\ vcl_pc = "c_done"
    /\ duty = None
    /\ orientation = [roll |-> 0, pitch |-> 0, yaw |-> 0]
    /\ sample = None
    /\ ticks = 0
    /\ wrap_in = 0
    /\ wrap_out = None
    /\ stop_event = TRUE
    /\ mcl_pc = "m_done"
    /\ imu_state = None
    /\ tick_log = <<>>

InitClose == (OpInit /\ VhClosed) \/ (OpClosed /\ VhInit)

\* the target the operator's main loop hands to set_command before it exits
CloseCommands == {CHOOSE c \in Commands : c.selected_pid = 0}

\* the datagrams that reach the vehicle before it shuts down
CloseInbound == {State_as_msg(c) : c \in CloseCommands}

\* a step of the operator's receiver thread
OpReceiverStep ==
    \/ ReceiverIdle
    \/ EnsureCheck("rx") \/ EnsureMark("rx")
    \/ \E ok \in BOOLEAN : EnsureConnect("rx", ok)

\* a step of the operator's sender thread
OpSenderStep ==
    \/ Sender
    \/ EnsureCheck("tx") \/ EnsureMark("tx")
    \/ \E ok \in BOOLEAN : EnsureConnect("tx", ok)

\* a step of the vehicle's receiver thread
VhReceiverStep ==
    \/ VRecvTop
    \/ VRecvTimeout
    \/ VRecvError
    \/ \E d \in CloseInbound : VRecvData(d, [host |-> "operator"])
    \/ VParse
    \/ VCallback

\* a step of the MPU6050 monitor thread
MonitorStep ==
    \/ ImuTop
    \/ ImuReadFail
    \/ \E state \in ImuStates : ImuReadOk(state)
    \/ ImuSend
    \/ ImuUpdate

NextClose ==
    \/ OpReceiverStep
    \/ OpSenderStep
    \/ \E c \in CloseCommands : set_command(c)
    \/ Closing
    \/ VhReceiverStep
    \/ MonitorStep
    \/ VCloseStop
    \/ VCloseJoin
    \/ VCloseSocket
    \/ MCloseStop
    \/ MCloseJoin
    \/ MCloseI2c

\* every thread that can take a step is scheduled eventually
SpecClose ==
    /\ InitClose
    /\ [][NextClose]_vars
    /\ WF_vars(OpReceiverStep)
    /\ WF_vars(OpSenderStep)
    /\ WF_vars(VhReceiverStep)
    /\ WF_vars(MonitorStep)

\* C31: once close() has cleared an endpoint's running flag or set the stop
\* event, each loop of that endpoint eventually ends: the operator's receive
\* and send loops, the vehicle's receive loop, the estimator's poll loop
C31_LoopsStop ==
    /\ ~running ~> (pc["rx"] \in {"done", "dead"} /\ pc["tx"] = "done")
    /\ ~v_running ~> (vpc \in {"done", "dead"})
    /\ stop_event ~> (imu_pc = "done")

\* the vehicle's loops have ended after close() of Connection and of MPU6050,
\* having received a Command and published a State before
C31_Witness ==
    /\ ~v_running /\ stop_event
    /\ vpc = "done" /\ imu_pc = "done"
    /\ v_latest_command # None
    /\ imu_state # None

\* C32: a well-formed datagram has its Command stored and then on_command
\* invoked; a datagram that fails to decode never has on_command invoked;
\* on_command is invoked once at a time, with a Command stored
C32_CallbackPerCommand ==
    [][/\ (VHandles /\ ~DecodeFails(v_data))
            => (vpc' = "v_cb" /\ v_latest_command' = parse_command(v_data).cmd)
       /\ (VHandles /\ DecodeFails(v_data)) => vpc' # "v_cb"
       /\ cb_calls' # cb_calls
            => (vpc = "v_cb" /\ vpc' = "v_top" /\ cb_calls' = cb_calls + 1
                  /\ v_latest_command # None)]_vars

\* the events of a complete tick that published state s
FullTick(s) ==
    <<[ev |-> "publish", state |-> s], [ev |-> "send", state |-> s],
      [ev |-> "update", state |-> s]>>

\* the monitor loop hands send_state its State
SendsState == imu_pc = "i_send" /\ imu_pc' # "i_send"

\* C33: in a tick with a successful read the loop publishes the State, calls
\* send_state once with that State, then invokes on_update once, in this
\* order; send_state transmits nothing while there is no reply target, and
\* otherwise sends that State with the throttle of the latest Command to the
\* reply target stored with it
C33_TickOrder ==
    [][/\ \E n \in 0..3 : tick_log' = SubSeq(FullTick(imu_state'), 1, n)
                            \/ tick_log' = <<>>
       /\ (imu_pc # "i_top" /\ imu_pc' = "i_top" /\ tick_log' # <<>>)
             => tick_log' = FullTick(imu_state')
       /\ (SendsState /\ sender_socket = None) => v_out' = v_out
       /\ (SendsState /\ sender_socket # None /\ v_sock_open)
             => /\ v_out'.target = sender_socket
                /\ v_out'.payload
                     = ImuState_as_msg(imu_state, v_latest_command.throttle)]_vars

\* a tick has run to its end after a Command was received: State published,
\* sent to the reply target, on_update invoked
C33_Witness ==
    /\ imu_pc = "i_top"
    /\ imu_state # None
    /\ tick_log = FullTick(imu_state)
    /\ sender_socket # None
    /\ v_out # None
    /\ v_out.target = sender_socket
    /\ v_latest_command.throttle # F(0)

\* the monitor loop's read fails
ReadFails == imu_pc = "i_read" /\ imu_pc' = "i_top"

\* C34: a failed read leaves the published State as it was, sends nothing,
\* does not invoke on_update, and the loop goes on to its next tick
C34_FailedReadSkipped ==
    [][ReadFails => /\ imu_state' = imu_state
                    /\ v_out' = v_out
                    /\ tick_log' = <<>>
                    /\ imu_pc' = "i_top"]_vars

\* a read has failed after a State was published and sent
C34_Witness ==
    /\ imu_pc = "i_top"
    /\ imu_fails > 0
    /\ imu_state # None
    /\ v_out # None
    /\ tick_log = <<>>

\* x is a number within the operator's throttle limit
WithinLimit(x) ==
    x.k = "num" /\ -(OP_THROTTLE_LIMIT.v) <= x.v /\ x.v <= OP_THROTTLE_LIMIT.v

\* C35: the Command the operator holds for sending, the State the operator
\* stores and the Command the vehicle stores all have a throttle within the
\* one limit, [-1, 1]
C35_OneThrottleLimit ==
    /\ pending_state # None => WithinLimit(pending_state.throttle)
    /\ WithinLimit(display_state.throttle)
    /\ v_latest_command # None => WithinLimit(v_latest_command.throttle)

----------------------------------------------------------------------------
(* The yaw wrap, as written in MPU6050._wrap_yaw and in _parse_command *)

MaxYaw == 900

\* yaw angles in whole degrees, every 30 degrees
YawInputs == {y \in -MaxYaw..MaxYaw : y % 30 = 0}

\* MPU6050._wrap_yaw applied to yaw degrees
WrapEstimatorYaw(yaw) ==
    /\ wrap_in' = yaw
    /\ wrap_out' = [by |-> "_wrap_yaw", yaw |-> mpu_wrap_yaw(yaw * 1000)]
    /\ UNCHANGED <<opvars, tlvars, pollvars, vnow, v_running, v_latest_command,
                   sender_socket, vpc, v_data, v_addr, v_cmd_time, cb_calls,
                   v_rx, york_x, york_vx, output, mix_args, orientation, sample,
                   ticks>>

\* the wrap of _parse_command, lines 75-77, applied to yaw degrees
WrapCommandYaw(yaw) ==
    /\ wrap_in' = yaw
    /\ wrap_out' = [by |-> "_parse_command", yaw |-> wrap_yaw(yaw) * 1000]
    /\ UNCHANGED <<opvars, tlvars, pollvars, vnow, v_running, v_latest_command,
                   sender_socket, vpc, v_data, v_addr, v_cmd_time, cb_calls,
                   v_rx, york_x, york_vx, output, mix_args, orientation, sample,
                   ticks>>

NextWrap ==
    \/ \E yaw \in YawInputs : WrapEstimatorYaw(yaw)
    \/ \E yaw \in YawInputs : WrapCommandYaw(yaw)

SpecWrap == Init /\ [][NextWrap]_vars

\* C36: the yaw wrap returns an angle in (-180, 180] that differs from its
\* argument by a multiple of 360 degrees
C36_WrapHalfOpen ==
    wrap_out # None
        => /\ -180000 < wrap_out.yaw /\ wrap_out.yaw <= 180000
           /\ (wrap_out.yaw - (wrap_in * 1000)) % 360000 = 0

\* a pulse width within 1000..2000 microseconds
InPulseRange(width) == Us(1000) <= width /\ width <= Us(2000)

render_parameters ==
    {"target_state", "connection", "active_keys", "now", "selected_pid"}

\* the keywords of the call of lines 209-215
render_keywords ==
    {"target_state", "connection", "active_keys", "selected_pid", "frame_times"}

\* Python binds the keywords of a call to the parameters of the function: an
\* unknown keyword or a parameter left without a value raises TypeError
Binds(keywords, parameters) ==
    keywords \subseteq parameters /\ parameters \subseteq keywords

\* one iteration of `while running` up to the call of lines 209-215: when the
\* call binds, render starts; when it raises, the exception leaves the loop
\* and the finally block of lines 231-233 calls connection.close()
MainIteration(target_state) ==
    IF Binds(render_keywords, render_parameters)
    THEN RenderBegin(target_state)
    ELSE CloseStop

\* the target the loop computes when no key is pressed
MainTargets == {CHOOSE c \in Commands : c.selected_pid = 0}

(* The main loop beside the two loops the Connection started *)
NextMain ==
    \/ Connecting
    \/ ReceiverIdle
    \/ SendTop
    \/ SendCheck
    \/ \E c \in MainTargets : MainIteration(c)
    \/ \E ok \in BOOLEAN : CloseSend(ok)
    \/ CloseSocket
    \/ \E t \in ConnTimes : Tick(t)

SpecMain == Init /\ [][NextMain]_vars

\* C38: the main loop is left only by the user's exit, which is tested after
\* the iteration has rendered and handed its target state to set_command: once
\* the loop is over and the connection is closing, a command has been set
C38_MainLoopIterates ==
    pc["main"] \in {"c_send", "c_join", "done"} => pending_state # None

====
